---- MODULE Spec2Model ----
(***************************************************************************)
(* Model of the procedural chunk generator of dylantcon/portfolio          *)
(* (package generation): geometry, Grid and its primitives, the seeded     *)
(* RNG, A* path finding over container/heap, the Graph, the component      *)
(* catalogue and the ChunkGenerator pipeline.                              *)
(***************************************************************************)
EXTENDS Integers, Sequences, FiniteSets, TLC

(***************************************************************************)
(* Go integer arithmetic                                                   *)
(***************************************************************************)

\* Go's "/" on ints truncates toward zero.
GoDiv(a, b) ==
  IF a >= 0 THEN a \div b ELSE -((-a) \div b)

abs(x) ==
  IF x < 0 THEN -x ELSE x

min(a, b) ==
  IF a < b THEN a ELSE b

max(a, b) ==
  IF a > b THEN a ELSE b

(***************************************************************************)
(* Point, Direction, Bounds, Anchor                                        *)
(***************************************************************************)

Point(x, y) ==
  [X |-> x, Y |-> y]

Add(p, dx, dy) ==
  Point(p.X + dx, p.Y + dy)

\* Point.Adjacent: the four cardinal neighbours in the order N, E, S, W.
AdjacentPts(p) ==
  << Point(p.X, p.Y - 1), Point(p.X + 1, p.Y), Point(p.X, p.Y + 1), Point(p.X - 1, p.Y) >>

North ==
  0

East ==
  1

South ==
  2

West ==
  3

\* Go's % takes the sign of the dividend.
Opposite(d) ==
  IF d + 2 >= 0 THEN (d + 2) % 4 ELSE -((-(d + 2)) % 4)

Delta(d) ==
  CASE d = North -> << 0, -1 >>
    [] d = East -> << 1, 0 >>
    [] d = South -> << 0, 1 >>
    [] d = West -> << -1, 0 >>
    [] OTHER -> << 0, 0 >>

Bounds(minX, minY, maxX, maxY) ==
  [MinX |-> minX, MinY |-> minY, MaxX |-> maxX, MaxY |-> maxY]

Contains(b, p) ==
  p.X >= b.MinX /\ p.X <= b.MaxX /\ p.Y >= b.MinY /\ p.Y <= b.MaxY

Overlaps(b, other) ==
  b.MinX <= other.MaxX /\ b.MaxX >= other.MinX /\ b.MinY <= other.MaxY /\ b.MaxY >= other.MinY

Expand(b, n) ==
  Bounds(b.MinX - n, b.MinY - n, b.MaxX + n, b.MaxY + n)

Center(b) ==
  Point(GoDiv(b.MinX + b.MaxX, 2), GoDiv(b.MinY + b.MaxY, 2))

Anchor(pos, dir) ==
  [Position |-> pos, Direction |-> dir]

manhattanDist(a, b) ==
  abs(a.X - b.X) + abs(a.Y - b.Y)

(***************************************************************************)
(* Graph                                                                   *)
(***************************************************************************)

NodeEdgePort ==
  0

NodeComponent ==
  1

NodeHub ==
  2

\* Go maps are finite functions; a missing key reads as the zero value.
NewGraph ==
  [Nodes |-> << >>, Edges |-> << >>, Adjacent |-> << >>]

HasNode(g, id) ==
  id \in DOMAIN g.Nodes

\* g.Adjacent[id]: a missing key yields nil, ranged over as an empty slice.
AdjacentOf(g, id) ==
  IF id \in DOMAIN g.Adjacent THEN g.Adjacent[id] ELSE << >>

MapPut(m, k, v) ==
  [x \in (DOMAIN m) \cup {k} |-> IF x = k THEN v ELSE m[x]]

AddNode(g, n) ==
  [g EXCEPT !.Nodes = MapPut(g.Nodes, n.ID, n),
            !.Adjacent = IF AdjacentOf(g, n.ID) = << >>
                           THEN MapPut(g.Adjacent, n.ID, << >>)
                           ELSE g.Adjacent]

\* AddEdge returns an error and changes nothing when an endpoint is absent.
AddEdgeOk(g, fromID, toID) ==
  HasNode(g, fromID) /\ HasNode(g, toID)

\* A variant that appends only the forward adjacency entry.
AddEdgeOneWay(g, fromID, toID, required) ==
  IF ~AddEdgeOk(g, fromID, toID) THEN g
  ELSE LET weight == manhattanDist(g.Nodes[fromID].Position, g.Nodes[toID].Position)
           edge == [From |-> fromID, To |-> toID, Weight |-> weight,
                    Required |-> required, Path |-> << >>]
       IN [g EXCEPT !.Edges = Append(g.Edges, edge),
                    !.Adjacent = MapPut(g.Adjacent, fromID, Append(AdjacentOf(g, fromID), toID))]

AddEdge(g, fromID, toID, required) ==
  IF ~AddEdgeOk(g, fromID, toID) THEN g
  ELSE LET weight == manhattanDist(g.Nodes[fromID].Position, g.Nodes[toID].Position)
           edge == [From |-> fromID, To |-> toID, Weight |-> weight,
                    Required |-> required, Path |-> << >>]
           adj1 == MapPut(g.Adjacent, fromID, Append(AdjacentOf(g, fromID), toID))
           adj2 == MapPut(adj1, toID,
                          Append(IF toID \in DOMAIN adj1 THEN adj1[toID] ELSE << >>, fromID))
       IN [g EXCEPT !.Edges = Append(g.Edges, edge), !.Adjacent = adj2]


\* The breadth-first search shared by IsConnected and FindUnreachable:
\* the set of visited ids, given the queue and the ids visited so far.
RECURSIVE bfsVisit(_, _, _)
bfsVisit(g, queue, visited) ==
  IF queue = << >> THEN visited
  ELSE LET current == Head(queue)
           adj == AdjacentOf(g, current)
           \* neighbours not yet visited, in adjacency order, each once
           fresh == SelectSeq(adj, LAMBDA id : id \notin visited)
           RECURSIVE dedup(_, _)
           dedup(s, seen) ==
             IF s = << >> THEN << >>
             ELSE IF Head(s) \in seen THEN dedup(Tail(s), seen)
             ELSE << Head(s) >> \o dedup(Tail(s), seen \cup {Head(s)})
           pushed == dedup(fresh, {})
       IN bfsVisit(g, Tail(queue) \o pushed,
                   visited \cup {pushed[i] : i \in DOMAIN pushed})

Visited(g, startID) ==
  bfsVisit(g, << startID >>, {startID})

IsConnected(g, startID) ==
  IF Cardinality(DOMAIN g.Nodes) = 0 THEN TRUE
  ELSE Cardinality(Visited(g, startID)) = Cardinality(DOMAIN g.Nodes)

\* The orders in which a range over the map g.Nodes can yield its keys.
RECURSIVE Perms(_)
Perms(S) ==
  IF S = {} THEN { << >> }
  ELSE UNION { { << x >> \o p : p \in Perms(S \ {x}) } : x \in S }

MapOrders(g) ==
  Perms(DOMAIN g.Nodes)

\* FindUnreachable, for the map iteration order `order`.
FindUnreachable(g, startID, order) ==
  LET visited == Visited(g, startID)
  IN SelectSeq(order, LAMBDA id : id \notin visited)

\* GetEdgePorts, for the map iteration order `order`: the port ids in that order.
GetEdgePorts(g, order) ==
  SelectSeq(order, LAMBDA id : g.Nodes[id].Type = NodeEdgePort)

GetProjectNodes(g, order) ==
  SelectSeq(order, LAMBDA id : g.Nodes[id].Zone # << >> /\ g.Nodes[id].Zone[1].ProjectID # "")

\* ---- MST: Kruskal over a union-find with ranks and path compression ----

RECURSIVE ufRoot(_, _)
ufRoot(parent, x) ==
  IF parent[x] # x THEN ufRoot(parent, parent[x]) ELSE x

\* find(x): every id on the path from x is re-parented to the root.
RECURSIVE ufCompress(_, _)
ufCompress(parent, x) ==
  IF parent[x] # x
    THEN LET p2 == ufCompress(parent, parent[x])
         IN [p2 EXCEPT ![x] = ufRoot(parent, x)]
    ELSE parent

\* union(x, y) on the state uf = [parent, rank]; joined tells whether it merged.
ufUnion(uf, x, y) ==
  LET p1 == ufCompress(uf.parent, x)
      rx0 == ufRoot(uf.parent, x)
      p2 == ufCompress(p1, y)
      ry0 == ufRoot(p1, y)
  IN IF rx0 = ry0 THEN [parent |-> p2, rank |-> uf.rank, joined |-> FALSE]
     ELSE LET swap == uf.rank[rx0] < uf.rank[ry0]
              rootX == IF swap THEN ry0 ELSE rx0
              rootY == IF swap THEN rx0 ELSE ry0
          IN [parent |-> [p2 EXCEPT ![rootY] = rootX],
              rank |-> IF uf.rank[rootX] = uf.rank[rootY]
                         THEN [uf.rank EXCEPT ![rootX] = @ + 1] ELSE uf.rank,
              joined |-> TRUE]

\* The insertion sort of MST on a sequence of edge indices: an element moves
\* left only past strictly heavier ones.
RECURSIVE sortSink(_, _, _)
sortSink(g, s, j) ==
  IF j > 1 /\ g.Edges[s[j]].Weight < g.Edges[s[j - 1]].Weight
    THEN sortSink(g, SubSeq(s, 1, j - 2) \o << s[j], s[j - 1] >> \o SubSeq(s, j + 1, Len(s)),
                  j - 1)
    ELSE s

RECURSIVE sortFrom(_, _, _)
sortFrom(g, s, i) ==
  IF i > Len(s) THEN s ELSE sortFrom(g, sortSink(g, s, i), i + 1)

SortedEdgeIdx(g) ==
  sortFrom(g, [i \in 1..Len(g.Edges) |-> i], 2)

RECURSIVE kruskal(_, _, _, _)
kruskal(g, sorted, uf, mst) ==
  IF sorted = << >> THEN mst
  ELSE LET e == g.Edges[Head(sorted)]
           u == ufUnion(uf, e.From, e.To)
       IN kruskal(g, Tail(sorted), [parent |-> u.parent, rank |-> u.rank],
                  IF u.joined THEN Append(mst, Head(sorted)) ELSE mst)

\* A variant that takes the edges in insertion order, without sorting.
MSTIdxUnsorted(g) ==
  kruskal(g, [i \in 1..Len(g.Edges) |-> i],
          [parent |-> [id \in DOMAIN g.Nodes |-> id], rank |-> [id \in DOMAIN g.Nodes |-> 0]],
          << >>)

\* MST as the indices (into g.Edges) of the edges it returns, in order.
MSTIdx(g) ==
  kruskal(g, SortedEdgeIdx(g),
          [parent |-> [id \in DOMAIN g.Nodes |-> id], rank |-> [id \in DOMAIN g.Nodes |-> 0]],
          << >>)

MST(g) ==
  [i \in 1..Len(MSTIdx(g)) |-> g.Edges[MSTIdx(g)[i]]]


(***************************************************************************)
(* Seeded RNG: a 64-bit linear congruential generator.  The state is kept   *)
(* as five limbs of 13 bits, least significant first (the last holds 12).   *)
(***************************************************************************)

LimbBase ==
  8192

TopLimbBase ==
  4096

\* 6364136223846793005
LcgMultiplier ==
  << 7981, 1195, 2899, 1000, 1413 >>

\* 1442695040888963407
LcgIncrement ==
  << 335, 6972, 8125, 2806, 320 >>

\* NewRNG(seed) for a seed below 2^31.
NewRNG(seed) ==
  << seed % LimbBase, (seed \div LimbBase) % LimbBase, seed \div (LimbBase * LimbBase), 0, 0 >>

\* Uint64: state = state * multiplier + increment (mod 2^64); returns the state.
Uint64(s) ==
  LET m == LcgMultiplier
      c == LcgIncrement
      t1 == s[1] * m[1] + c[1]
      t2 == s[1] * m[2] + s[2] * m[1] + c[2] + (t1 \div LimbBase)
      t3 == s[1] * m[3] + s[2] * m[2] + s[3] * m[1] + c[3] + (t2 \div LimbBase)
      t4 == s[1] * m[4] + s[2] * m[3] + s[3] * m[2] + s[4] * m[1] + c[4] + (t3 \div LimbBase)
      t5 == s[1] * m[5] + s[2] * m[4] + s[3] * m[3] + s[4] * m[2] + s[5] * m[1]
            + c[5] + (t4 \div LimbBase)
  IN << t1 % LimbBase, t2 % LimbBase, t3 % LimbBase, t4 % LimbBase, t5 % TopLimbBase >>

\* a < b for two 64-bit values in limbs.
LimbsLess(a, b) ==
  \E k \in 1..5 : a[k] < b[k] /\ \A j \in (k + 1)..5 : a[j] = b[j]

\* The float64 constants the generator compares Float64() with, in thousandths,
\* each as the least 64-bit state s with float64(s >> 11) / 2^53 >= constant.
Float64Bound(d) ==
  CASE d = 0 -> << 0, 0, 0, 0, 0 >>
    [] d = 10 -> << 4096, 3604, 2621, 7864, 40 >>
    [] d = 20 -> << 0, 7209, 5242, 7536, 81 >>
    [] d = 30 -> << 4096, 2621, 7864, 7208, 122 >>
    [] d = 50 -> << 4096, 1638, 4915, 6553, 204 >>
    [] d = 150 -> << 2048, 4915, 6553, 3276, 614 >>
    [] d = 200 -> << 6144, 6553, 3276, 1638, 819 >>
    [] d = 350 -> << 6144, 3276, 1638, 4915, 1433 >>
    [] d = 400 -> << 2048, 4915, 6553, 3276, 1638 >>
    [] d = 500 -> << 0, 0, 0, 0, 2048 >>

\* rng.Float64() < density, given the state Uint64 has just returned.
Float64Less(s, d) ==
  LimbsLess(s, Float64Bound(d))

\* Intn(n) for n > 0, given the state Uint64 has just returned: state % n.
Intn(s, n) ==
  LET r5 == s[5] % n
      r4 == (r5 * LimbBase + s[4]) % n
      r3 == (r4 * LimbBase + s[3]) % n
      r2 == (r3 * LimbBase + s[2]) % n
  IN (r2 * LimbBase + s[1]) % n

(***************************************************************************)
(* Grid and the drawing primitives                                         *)
(***************************************************************************)

NewGrid(width, height, defaultTile, walkable) ==
  [Width |-> width, Height |-> height,
   Tiles |-> [y \in 0..(height - 1) |-> [x \in 0..(width - 1) |-> defaultTile]],
   Walkable |-> [y \in 0..(height - 1) |-> [x \in 0..(width - 1) |-> walkable]]]

InBounds(g, p) ==
  p.X >= 0 /\ p.X < g.Width /\ p.Y >= 0 /\ p.Y < g.Height

\* A variant without the bounds check, on rows kept in one wrapped array.
SetWrapped(g, p, tile, walkable) ==
  [g EXCEPT !.Tiles[p.Y % g.Height][p.X % g.Width] = tile,
            !.Walkable[p.Y % g.Height][p.X % g.Width] = walkable]

Set(g, p, tile, walkable) ==
  IF InBounds(g, p)
    THEN [g EXCEPT !.Tiles[p.Y][p.X] = tile, !.Walkable[p.Y][p.X] = walkable]
    ELSE g

Get(g, p) ==
  IF InBounds(g, p) THEN g.Tiles[p.Y][p.X] ELSE ""

IsWalkable(g, p) ==
  IF InBounds(g, p) THEN g.Walkable[p.Y][p.X] ELSE FALSE

\* for y := b.MinY..b.MaxY { for x := b.MinX..b.MaxX { ... g.Set(Point{x, y}, ...) } }
\* as one pass: the cell (x, y) of b is set to the pair F(x, y), and left alone
\* where F(x, y) is << >> or the cell is outside the grid, as by Set.  It stands
\* for loops whose writes do not depend on one another.
PaintEach(g, b, F(_, _)) ==
  LET hit(x, y) == x >= b.MinX /\ x <= b.MaxX /\ F(x, y) # << >>
  IN [g EXCEPT
        !.Tiles = [y \in 0..(g.Height - 1) |->
                     IF y < b.MinY \/ y > b.MaxY THEN g.Tiles[y]
                     ELSE [x \in 0..(g.Width - 1) |->
                             IF hit(x, y) THEN F(x, y)[1] ELSE g.Tiles[y][x]]],
        !.Walkable = [y \in 0..(g.Height - 1) |->
                        IF y < b.MinY \/ y > b.MaxY THEN g.Walkable[y]
                        ELSE [x \in 0..(g.Width - 1) |->
                                IF hit(x, y) THEN F(x, y)[2] ELSE g.Walkable[y][x]]]]

Rect(g, b, tile, walkable) ==
  LET F(x, y) == << tile, walkable >>
  IN PaintEach(g, b, F)

\* The two loops of RectOutline: the first sets the cells (x, MinY) and
\* (x, MaxY) for x in MinX..MaxX, the second the cells (MinX, y) and (MaxX, y)
\* for y in MinY..MaxY; either loop runs also when the other range is empty.
RectOutline(g, b, tile, walkable) ==
  LET F(x, y) == IF \/ (y = b.MinY \/ y = b.MaxY) /\ x >= b.MinX /\ x <= b.MaxX
                    \/ (x = b.MinX \/ x = b.MaxX) /\ y >= b.MinY /\ y <= b.MaxY
                   THEN << tile, walkable >> ELSE << >>
  IN PaintEach(g, Bounds(min(b.MinX, b.MaxX), min(b.MinY, b.MaxY),
                         max(b.MinX, b.MaxX), max(b.MinY, b.MaxY)), F)

\* The loop of Line: Bresenham from (x, y) to `to` with the running error err.
RECURSIVE lineStep(_, _, _, _, _, _, _, _, _, _, _)
lineStep(g, x, y, to, dx, dy, sx, sy, err, tile, walkable) ==
  LET g1 == Set(g, Point(x, y), tile, walkable)
  IN IF x = to.X /\ y = to.Y THEN g1
     ELSE LET e2 == 2 * err
              stepX == e2 >= dy
              stepY == e2 <= dx
          IN lineStep(g1,
                      IF stepX THEN x + sx ELSE x,
                      IF stepY THEN y + sy ELSE y,
                      to, dx, dy, sx, sy,
                      err + (IF stepX THEN dy ELSE 0) + (IF stepY THEN dx ELSE 0),
                      tile, walkable)

Line(g, from, to, tile, walkable) ==
  LET dx == abs(to.X - from.X)
      dy == -abs(to.Y - from.Y)
      sx == IF from.X > to.X THEN -1 ELSE 1
      sy == IF from.Y > to.Y THEN -1 ELSE 1
  IN lineStep(g, from.X, from.Y, to, dx, dy, sx, sy, dx + dy, tile, walkable)

\* The loop of FloodFill over its queue and visited set.
RECURSIVE floodLoop(_, _, _, _, _, _)
floodLoop(g, queue, visited, oldTile, newTile, walkable) ==
  IF queue = << >> THEN g
  ELSE LET p == Head(queue)
           rest == Tail(queue)
       IN IF p \in visited \/ ~InBounds(g, p) THEN
            floodLoop(g, rest, visited, oldTile, newTile, walkable)
          ELSE IF Get(g, p) # oldTile THEN
            floodLoop(g, rest, visited, oldTile, newTile, walkable)
          ELSE LET v2 == visited \cup {p}
               IN floodLoop(Set(g, p, newTile, walkable),
                            rest \o SelectSeq(AdjacentPts(p), LAMBDA q : q \notin v2),
                            v2, oldTile, newTile, walkable)

FloodFill(g, start, newTile, walkable) ==
  IF ~InBounds(g, start) THEN g
  ELSE IF Get(g, start) = newTile THEN g
  ELSE floodLoop(g, << start >>, {}, Get(g, start), newTile, walkable)

\* The float64 constants compared by Float64() > constant, in thousandths, each
\* as the least 64-bit state s with float64(s >> 11) / 2^53 > constant.
Float64Above(d) ==
  CASE d = 400 -> << 4096, 4915, 6553, 3276, 1638 >>
    [] d = 500 -> << 2048, 0, 0, 0, 2048 >>

Float64Greater(s, d) ==
  ~LimbsLess(s, Float64Above(d))

\* The loops that draw from the RNG visit the cells of a rectangle one by one.
\* The state of such a loop is [g, rng]; job names the loop and its arguments;
\* i counts the cells of job.b from 0, along the rows (or, for the walls of
\* Ruins, along the columns).
sweepWidth(b) ==
  IF b.MaxX < b.MinX THEN 0 ELSE b.MaxX - b.MinX + 1

sweepHeight(b) ==
  IF b.MaxY < b.MinY THEN 0 ELSE b.MaxY - b.MinY + 1

\* if avoid[p] { continue }; if rng.Float64() < density { g.Set(p, tile, walkable) }
scatterCell(st, p, job) ==
  IF p \in job.avoid THEN st
  ELSE LET s == Uint64(st.rng)
       IN [g |-> IF Float64Less(s, job.density)
                   THEN Set(st.g, p, job.tile, job.walkable) ELSE st.g,
           rng |-> s]

\* if g.Get(p) == targetTile && rng.Float64() < density { g.Set(p, newTile, walkable) }
scatterOnTileCell(st, p, job) ==
  IF Get(st.g, p) # job.targetTile THEN st
  ELSE LET s == Uint64(st.rng)
       IN [g |-> IF Float64Less(s, job.density)
                   THEN Set(st.g, p, job.newTile, job.walkable) ELSE st.g,
           rng |-> s]

\* Garden: if (x+y)%3 == 0 && rng.Float64() < 0.5 { grid.Set(p, Bush, false) }
gardenCell(st, p, job) ==
  IF (p.X + p.Y) % 3 # 0 THEN st
  ELSE LET s == Uint64(st.rng)
       IN [g |-> IF Float64Less(s, 500) THEN Set(st.g, p, job.bush, FALSE) ELSE st.g,
           rng |-> s]

\* Ruins: an edge cell is a wall when rng.Float64() > decay, else cobblestone;
\* an inner cell is cobblestone.
ruinsCell(st, p, job) ==
  LET isEdge == p.X = job.b.MinX \/ p.X = job.b.MaxX \/ p.Y = job.b.MinY \/ p.Y = job.b.MaxY
  IN IF isEdge
       THEN LET s == Uint64(st.rng)
            IN [g |-> IF Float64Greater(s, job.decay)
                        THEN Set(st.g, p, job.wall, FALSE)
                        ELSE Set(st.g, p, job.floor, TRUE),
                rng |-> s]
       ELSE [g |-> Set(st.g, p, job.floor, TRUE), rng |-> st.rng]

sweepCell(st, i, job) ==
  LET w == sweepWidth(job.b)
      h == sweepHeight(job.b)
      rowMajor == Point(job.b.MinX + (i % w), job.b.MinY + (i \div w))
      colMajor == Point(job.b.MinX + (i \div h), job.b.MinY + (i % h))
  IN CASE job.loop = "Scatter" -> scatterCell(st, rowMajor, job)
       [] job.loop = "ScatterOnTile" -> scatterOnTileCell(st, rowMajor, job)
       [] job.loop = "Garden" -> gardenCell(st, rowMajor, job)
       [] job.loop = "Ruins" -> ruinsCell(st, colMajor, job)

\* The cells lo..hi in order.  The range is halved, and the test on the first
\* half (a loop state has fields) makes TLC finish it before entering the second.
RECURSIVE sweep(_, _, _, _)
sweep(st, lo, hi, job) ==
  IF lo > hi THEN st
  ELSE IF lo = hi THEN sweepCell(st, lo, job)
  ELSE LET mid == (lo + hi) \div 2
           first == sweep(st, lo, mid, job)
       IN IF DOMAIN first = {} THEN first ELSE sweep(first, mid + 1, hi, job)

sweepAll(g, rng, job) ==
  sweep([g |-> g, rng |-> rng], 0, sweepWidth(job.b) * sweepHeight(job.b) - 1, job)

\* avoid is a set of points; the nil map is the empty set.
Scatter(g, b, tile, walkable, density, rng, avoid) ==
  sweepAll(g, rng, [loop |-> "Scatter", b |-> b, tile |-> tile, walkable |-> walkable,
                    density |-> density, avoid |-> avoid])

ScatterOnTile(g, b, targetTile, newTile, walkable, density, rng) ==
  sweepAll(g, rng, [loop |-> "ScatterOnTile", b |-> b, targetTile |-> targetTile,
                    newTile |-> newTile, walkable |-> walkable, density |-> density])

(***************************************************************************)
(* A* path finding.  The open set is a container/heap binary heap ordered  *)
(* by fScore; the entry at index i of the Go slice is pq[i + 1].           *)
(***************************************************************************)

heuristic(a, b) ==
  abs(a.X - b.X) + abs(a.Y - b.Y)

Less(pq, i, j) ==
  pq[i + 1].fScore < pq[j + 1].fScore

Swap(pq, i, j) ==
  [pq EXCEPT ![i + 1] = pq[j + 1], ![j + 1] = pq[i + 1]]

\* heap.up: the entry at j rises while it is less than its parent.
RECURSIVE up(_, _)
up(pq, j) ==
  LET i == GoDiv(j - 1, 2)
  IN IF i = j \/ ~Less(pq, j, i) THEN pq ELSE up(Swap(pq, i, j), i)

\* heap.down: the entry at i sinks below its lesser child, the left one on a tie.
RECURSIVE down(_, _, _)
down(pq, i, n) ==
  LET j1 == 2 * i + 1
      j == IF j1 + 1 < n /\ Less(pq, j1 + 1, j1) THEN j1 + 1 ELSE j1
  IN IF j1 >= n THEN pq
     ELSE IF ~Less(pq, j, i) THEN pq
     ELSE down(Swap(pq, i, j), j, n)

heapPush(pq, x) ==
  up(Append(pq, x), Len(pq))

\* heap.Pop: the first entry is swapped with the last, the new first sinks
\* among the others, and the last entry is taken off.
heapPop(pq) ==
  LET n == Len(pq) - 1
      h == down(Swap(pq, 0, n), 0, n)
  IN [node |-> h[n + 1], pq |-> SubSeq(h, 1, n)]

\* A key missing from gScore or cameFrom.
NoScore ==
  -1

NoPoint ==
  Point(-1, -1)

\* A nil path.
NoPath ==
  << >>

\* The maps keyed by Point hold only cells of the grid; each is kept as rows of
\* cells, like Tiles.
PointMap(g, v) ==
  [y \in 0..(g.Height - 1) |-> [x \in 0..(g.Width - 1) |-> v]]

\* A variant of isWalkable that forgets the avoid set.
isWalkableAnywhere(env, p) ==
  IF env.avoiding
    THEN IsWalkable(env.g, p)
    ELSE IF p \in env.set THEN TRUE ELSE IsWalkable(env.g, p)

\* isWalkable of FindPath (env.avoiding = FALSE: the points of env.set are
\* walkable) and of FindPathAvoid (env.avoiding = TRUE: the points of env.set
\* are not).  A nil map is the empty set.
isWalkable(env, p) ==
  IF env.avoiding
    THEN IF p \in env.set THEN FALSE ELSE IsWalkable(env.g, p)
    ELSE IF p \in env.set THEN TRUE ELSE IsWalkable(env.g, p)

\* path := []Point{to}; for curr != from { curr = cameFrom[curr]; prepend }
RECURSIVE reconstruct(_, _, _, _)
reconstruct(cameFrom, from, curr, path) ==
  IF Len(path) = 0 \/ curr = from THEN path
  ELSE LET prev == cameFrom[curr.Y][curr.X]
       IN reconstruct(cameFrom, from, prev, << prev >> \o path)

\* The body of the loop over current.point.Adjacent() for one neighbor.
relax(st, current, neighbor, env) ==
  IF ~InBounds(env.g, neighbor) THEN st
  ELSE IF ~isWalkable(env, neighbor) /\ neighbor # env.to THEN st
  ELSE LET tentativeG == st.gScore[current.Y][current.X] + 1
           oldG == st.gScore[neighbor.Y][neighbor.X]
       IN IF oldG # NoScore /\ ~(tentativeG < oldG) THEN st
          ELSE [st EXCEPT
                  !.cameFrom[neighbor.Y][neighbor.X] = current,
                  !.gScore[neighbor.Y][neighbor.X] = tentativeG,
                  !.openSet = IF st.inOpen[neighbor.Y][neighbor.X] THEN @
                              ELSE heapPush(@, [point |-> neighbor,
                                                fScore |-> tentativeG + heuristic(neighbor, env.to)]),
                  !.inOpen[neighbor.Y][neighbor.X] = TRUE]

\* One turn of for openSet.Len() > 0 { ... }; st.done once the function returned.
astarTurn(st, env) ==
  IF Len(st.openSet) = 0 THEN [st EXCEPT !.done = TRUE]
  ELSE LET popped == heapPop(st.openSet)
           current == popped.node.point
           s0 == [st EXCEPT !.openSet = popped.pq, !.inOpen[current.Y][current.X] = FALSE]
           adj == AdjacentPts(current)
           s1 == relax(s0, current, adj[1], env)
           s2 == relax(s1, current, adj[2], env)
           s3 == relax(s2, current, adj[3], env)
       IN IF current = env.to
            THEN [s0 EXCEPT !.done = TRUE,
                            !.path = reconstruct(s0.cameFrom, env.from, env.to, << env.to >>)]
            ELSE relax(s3, current, adj[4], env)

\* At most n turns of the loop; the turns are split in two halves and the
\* first half is finished before the second is entered.
RECURSIVE astarTurns(_, _, _)
astarTurns(st, n, env) ==
  IF st.done \/ n = 0 THEN st
  ELSE IF n = 1 THEN astarTurn(st, env)
  ELSE LET first == astarTurns(st, n \div 2, env)
       IN IF first.done THEN first ELSE astarTurns(first, n - (n \div 2), env)

\* The loop, run until the function returns.
RECURSIVE astarLoop(_, _)
astarLoop(st, env) ==
  IF st.done THEN st ELSE astarLoop(astarTurns(st, 1024, env), env)

\* The search as the loop is entered: the start is in the open set with
\* gScore 0.  A start or goal outside the grid has returned nil already.
astarStart(env) ==
  IF ~InBounds(env.g, env.from) \/ ~InBounds(env.g, env.to)
    THEN [openSet |-> << >>,
          gScore |-> PointMap(env.g, NoScore),
          cameFrom |-> PointMap(env.g, NoPoint),
          inOpen |-> PointMap(env.g, FALSE),
          done |-> TRUE,
          path |-> NoPath]
    ELSE LET from == env.from
         IN [openSet |-> << [point |-> from, fScore |-> heuristic(from, env.to)] >>,
             gScore |-> [PointMap(env.g, NoScore) EXCEPT ![from.Y][from.X] = 0],
             cameFrom |-> PointMap(env.g, NoPoint),
             inOpen |-> [PointMap(env.g, FALSE) EXCEPT ![from.Y][from.X] = TRUE],
             done |-> FALSE,
             path |-> NoPath]

astar(env) ==
  astarLoop(astarStart(env), env).path

FindPath(g, from, to, walkableOverride) ==
  astar([g |-> g, from |-> from, to |-> to, avoiding |-> FALSE, set |-> walkableOverride])

FindPathAvoid(g, from, to, avoid) ==
  astar([g |-> g, from |-> from, to |-> to, avoiding |-> TRUE, set |-> avoid])

(***************************************************************************)
(* Palette and the component catalogue                                     *)
(***************************************************************************)

\* The two glyphs outside ASCII are written by their code points:
\* "U+2248" is the DeepWater tile and "U+2591" the WoodFloor tile.
DefaultPalette ==
  [Grass |-> "^", Sand |-> ".", Water |-> "~", DeepWater |-> "U+2248", Snow |-> "s",
   Mountain |-> "M", Peak |-> "A", Tree |-> "T", PineTree |-> "t", Bush |-> ";",
   Building |-> "#", WhiteBuilding |-> "B", WoodWall |-> "W", Door |-> "D",
   Pillar |-> "|", Path |-> "+", Cobblestone |-> "o", Dock |-> "=", Bridge |-> "n",
   Star |-> "*", Marker |-> "@", Empty |-> " ", Window |-> "%", WoodFloor |-> "U+2591",
   Chimney |-> "H"]

\* A *Zone is << >> when nil and << z >> otherwise; z.Ref tells allocations apart.
NilZone ==
  << >>

Zone(name, description, bounds, projectID, ref) ==
  [Name |-> name, Description |-> description, Bounds |-> bounds,
   ProjectID |-> projectID, Ref |-> ref]

NoBounds ==
  Bounds(0, 0, 0, 0)

NewShoreline(side, waterDepth, sandDepth, chunkSize) ==
  [kind |-> "shoreline", Side |-> side, WaterDepth |-> waterDepth, SandDepth |-> sandDepth,
   bounds |-> CASE side = North -> Bounds(0, 0, chunkSize - 1, waterDepth + sandDepth - 1)
                [] side = South -> Bounds(0, chunkSize - waterDepth - sandDepth,
                                          chunkSize - 1, chunkSize - 1)
                [] side = East -> Bounds(chunkSize - waterDepth - sandDepth, 0,
                                         chunkSize - 1, chunkSize - 1)
                [] side = West -> Bounds(0, 0, waterDepth + sandDepth - 1, chunkSize - 1)
                [] OTHER -> NoBounds]

NewMountainRange(bounds, passes, snowLine) ==
  [kind |-> "mountain", bounds |-> bounds, passes |-> passes, snowLine |-> snowLine]

NewGrove(bounds, density, treeType) ==
  [kind |-> "grove", bounds |-> bounds, density |-> density, treeType |-> treeType]

NewClearing(center, radius) ==
  [kind |-> "clearing", center |-> center, radius |-> radius]

NewBuilding(bounds, style, entranceDir, zone) ==
  [kind |-> "building", bounds |-> bounds, style |-> style, entranceDir |-> entranceDir,
   zone |-> zone]

NewCabin(bounds, entranceDir, zone) ==
  [kind |-> "cabin", bounds |-> bounds, entranceDir |-> entranceDir, zone |-> zone]

NewTower(center, radius, entranceDir, zone) ==
  [kind |-> "tower", center |-> center, radius |-> radius, entranceDir |-> entranceDir,
   zone |-> zone]

NewCourtyard(bounds, wallStyle, entrances, zone) ==
  [kind |-> "courtyard", bounds |-> bounds, wallStyle |-> wallStyle,
   entrances |-> entrances, zone |-> zone]

NewShrine(center, size, zone) ==
  [kind |-> "shrine", center |-> center, size |-> size, zone |-> zone]

NewPlaza(center, radius, shape) ==
  [kind |-> "plaza", center |-> center, radius |-> radius, shape |-> shape]

NewDock(origin, direction, length, width, zone) ==
  [kind |-> "dock", origin |-> origin, direction |-> direction, length |-> length,
   width |-> width, zone |-> zone]

NewBridge(start, end) ==
  [kind |-> "bridge", start |-> start, end |-> end]

NewScatterDecor(bounds, tile, density) ==
  [kind |-> "scatter", bounds |-> bounds, tile |-> tile, density |-> density]

NewBorder(inner, tile, walkable) ==
  [kind |-> "border", inner |-> inner, tile |-> tile, walkable |-> walkable]

\* The zone NewSignpost allocates gets the reference ref.
NewSignpost(position, direction, destName, destHint, ref) ==
  [kind |-> "signpost", position |-> position, direction |-> direction,
   zone |-> << Zone("Signpost", destHint,
                    Bounds(position.X - 1, position.Y - 1, position.X + 1, position.Y + 1),
                    "", ref) >>]

NewPond(center, radius) ==
  [kind |-> "pond", center |-> center, radius |-> radius]

NewGarden(bounds) ==
  [kind |-> "garden", bounds |-> bounds]

NewRuins(bounds, decay) ==
  [kind |-> "ruins", bounds |-> bounds, decay |-> decay]

\* Building.getDoorPosition and Cabin.getDoorPosition.
getDoorPosition(c) ==
  LET center == Center(c.bounds)
  IN CASE c.entranceDir = North -> Point(center.X, c.bounds.MinY)
       [] c.entranceDir = South -> Point(center.X, c.bounds.MaxY)
       [] c.entranceDir = East -> Point(c.bounds.MaxX, center.Y)
       [] c.entranceDir = West -> Point(c.bounds.MinX, center.Y)
       [] OTHER -> Point(center.X, c.bounds.MaxY)

towerDoorPosition(t) ==
  CASE t.entranceDir = North -> Point(t.center.X, t.center.Y - t.radius)
    [] t.entranceDir = South -> Point(t.center.X, t.center.Y + t.radius)
    [] t.entranceDir = East -> Point(t.center.X + t.radius, t.center.Y)
    [] t.entranceDir = West -> Point(t.center.X - t.radius, t.center.Y)
    [] OTHER -> Point(t.center.X, t.center.Y + t.radius)

\* The gate of a courtyard on its side dir (the zero Point for no direction).
gatePos(c, dir) ==
  LET center == Center(c.bounds)
  IN CASE dir = North -> Point(center.X, c.bounds.MinY)
       [] dir = South -> Point(center.X, c.bounds.MaxY)
       [] dir = East -> Point(c.bounds.MaxX, center.Y)
       [] dir = West -> Point(c.bounds.MinX, center.Y)
       [] OTHER -> Point(0, 0)

\* Bounds of a centre and a radius (Clearing, Tower, Shrine, Plaza, Pond).
radiusBounds(center, r) ==
  Bounds(center.X - r, center.Y - r, center.X + r, center.Y + r)

dockBounds(d) ==
  LET dx == Delta(d.direction)[1]
      dy == Delta(d.direction)[2]
      endX == d.origin.X + dx * (d.length - 1)
      endY == d.origin.Y + dy * (d.length - 1)
      halfWidth == GoDiv(d.width, 2)
      minX == min(d.origin.X, endX)
      maxX == max(d.origin.X, endX)
      minY == min(d.origin.Y, endY)
      maxY == max(d.origin.Y, endY)
  IN IF dx # 0 THEN Bounds(minX, minY - halfWidth, maxX, maxY + halfWidth)
     ELSE Bounds(minX - halfWidth, minY, maxX + halfWidth, maxY)

GetBounds(c) ==
  CASE c.kind \in { "shoreline", "mountain", "grove", "building", "cabin", "courtyard",
                    "scatter", "garden", "ruins" } -> c.bounds
    [] c.kind \in { "clearing", "tower", "plaza", "pond" } -> radiusBounds(c.center, c.radius)
    [] c.kind = "shrine" -> radiusBounds(c.center, c.size)
    [] c.kind = "dock" -> dockBounds(c)
    [] c.kind = "bridge" -> Bounds(min(c.start.X, c.end.X), min(c.start.Y, c.end.Y),
                                   max(c.start.X, c.end.X), max(c.start.Y, c.end.Y))
    [] c.kind = "border" -> Expand(c.inner, 1)
    [] c.kind = "signpost" -> Bounds(c.position.X, c.position.Y, c.position.X, c.position.Y)

\* A variant of the door anchors that puts the anchor on the door tile itself.
doorAnchorsAtDoor(door, entranceDir) ==
  << Anchor(door, Opposite(entranceDir)) >>

\* Building, Cabin and Tower: the anchor is one tile outside the door.
doorAnchors(door, entranceDir) ==
  << Anchor(Add(door, Delta(entranceDir)[1], Delta(entranceDir)[2]), Opposite(entranceDir)) >>

courtyardAnchors(c) ==
  LET center == Center(c.bounds)
      pos(dir) == CASE dir = North -> Point(center.X, c.bounds.MinY - 1)
                    [] dir = South -> Point(center.X, c.bounds.MaxY + 1)
                    [] dir = East -> Point(c.bounds.MaxX + 1, center.Y)
                    [] dir = West -> Point(c.bounds.MinX - 1, center.Y)
                    [] OTHER -> Point(0, 0)
  IN [i \in 1..Len(c.entrances) |-> Anchor(pos(c.entrances[i]), Opposite(c.entrances[i]))]

\* A nil slice of anchors is the empty sequence.
GetAnchors(c) ==
  CASE c.kind = "mountain" -> [i \in 1..Len(c.passes) |-> Anchor(c.passes[i], South)]
    [] c.kind = "clearing" -> << Anchor(c.center, South) >>
    [] c.kind \in { "building", "cabin" } -> doorAnchors(getDoorPosition(c), c.entranceDir)
    [] c.kind = "tower" -> doorAnchors(towerDoorPosition(c), c.entranceDir)
    [] c.kind = "courtyard" -> courtyardAnchors(c)
    [] c.kind = "shrine" -> << Anchor(Point(c.center.X, c.center.Y + c.size + 1), North) >>
    [] c.kind = "plaza" -> << Anchor(Point(c.center.X, c.center.Y - c.radius), South),
                              Anchor(Point(c.center.X, c.center.Y + c.radius), North),
                              Anchor(Point(c.center.X - c.radius, c.center.Y), East),
                              Anchor(Point(c.center.X + c.radius, c.center.Y), West) >>
    [] c.kind = "dock" -> << Anchor(c.origin, Opposite(c.direction)) >>
    [] c.kind = "bridge" -> << Anchor(c.start, South), Anchor(c.end, North) >>
    [] c.kind = "ruins" -> << Anchor(Point(Center(c.bounds).X, c.bounds.MaxY + 1), North) >>
    [] OTHER -> << >>

GetZone(c) ==
  IF c.kind \in { "building", "cabin", "tower", "courtyard", "shrine", "dock", "signpost" }
    THEN c.zone ELSE NilZone

\* A variant of the shoreline that is walkable sand all over.
renderShorelineSandOnly(g, p, s) ==
  LET F(x, y) == << p.Sand, TRUE >>
  IN PaintEach(g, s.bounds, F)

renderShoreline(g, p, s) ==
  LET depth(x, y) == CASE s.Side = North -> y - s.bounds.MinY
                       [] s.Side = South -> s.bounds.MaxY - y
                       [] s.Side = East -> s.bounds.MaxX - x
                       [] s.Side = West -> x - s.bounds.MinX
                       [] OTHER -> 0
      F(x, y) == IF depth(x, y) < s.WaterDepth
                   THEN IF depth(x, y) < GoDiv(s.WaterDepth, 2)
                          THEN << p.DeepWater, FALSE >> ELSE << p.Water, FALSE >>
                   ELSE << p.Sand, TRUE >>
  IN PaintEach(g, s.bounds, F)

renderMountainRange(g, p, m) ==
  LET passSet == UNION { {m.passes[i]} \cup { AdjacentPts(m.passes[i])[k] : k \in 1..4 } :
                         i \in 1..Len(m.passes) }
      F(x, y) == LET distFromTop == y - m.bounds.MinY
                 IN IF Point(x, y) \in passSet THEN << p.Path, TRUE >>
                    ELSE IF distFromTop < m.snowLine THEN << p.Snow, FALSE >>
                    ELSE IF distFromTop < m.snowLine + 2 THEN << p.Peak, FALSE >>
                    ELSE << p.Mountain, FALSE >>
  IN PaintEach(g, m.bounds, F)

\* Clearing and the circular Plaza: the cells within the radius of the centre.
renderDisc(g, center, radius, tile, walkable) ==
  LET F(x, y) == IF (x - center.X) * (x - center.X) + (y - center.Y) * (y - center.Y)
                      <= radius * radius
                   THEN << tile, walkable >> ELSE << >>
  IN PaintEach(g, radiusBounds(center, radius), F)

wallTileOf(p, style) ==
  CASE style = "white" -> p.WhiteBuilding
    [] style = "wood" -> p.WoodWall
    [] OTHER -> p.Building

interiorOf(b) ==
  Bounds(b.MinX + 1, b.MinY + 1, b.MaxX - 1, b.MaxY - 1)

renderBuilding(g, p, b) ==
  LET g1 == Rect(g, interiorOf(b.bounds), p.Cobblestone, TRUE)
      g2 == RectOutline(g1, b.bounds, wallTileOf(p, b.style), FALSE)
      width == b.bounds.MaxX - b.bounds.MinX
      height == b.bounds.MaxY - b.bounds.MinY
      \* for x := MinX + 2; x <= MaxX - 2; x += 2
      onX(x) == x >= b.bounds.MinX + 2 /\ x <= b.bounds.MaxX - 2
                /\ (x - b.bounds.MinX) % 2 = 0
      onY(y) == y >= b.bounds.MinY + 2 /\ y <= b.bounds.MaxY - 2
                /\ (y - b.bounds.MinY) % 2 = 0
      W(x, y) ==
        IF \/ (height >= 4 /\ onX(x) /\ y = b.bounds.MinY /\ b.entranceDir # North)
           \/ (height >= 4 /\ onX(x) /\ y = b.bounds.MaxY /\ b.entranceDir # South)
           \/ (width >= 4 /\ onY(y) /\ x = b.bounds.MinX /\ b.entranceDir # West)
           \/ (width >= 4 /\ onY(y) /\ x = b.bounds.MaxX /\ b.entranceDir # East)
          THEN << p.Window, FALSE >> ELSE << >>
      g3 == PaintEach(g2, b.bounds, W)
  IN Set(g3, getDoorPosition(b), p.Door, TRUE)

renderCabin(g, p, c) ==
  LET g1 == Rect(g, interiorOf(c.bounds), p.WoodFloor, TRUE)
      g2 == RectOutline(g1, c.bounds, p.WoodWall, FALSE)
      chimneyPos == Point(c.bounds.MaxX, c.bounds.MinY - 1)
      g3 == IF chimneyPos.Y >= 0 THEN Set(g2, chimneyPos, p.Chimney, FALSE) ELSE g2
  IN Set(g3, getDoorPosition(c), p.Door, TRUE)

cornerPillars(g, p, b) ==
  Set(Set(Set(Set(g, Point(b.MinX, b.MinY), p.Pillar, FALSE),
              Point(b.MaxX, b.MinY), p.Pillar, FALSE),
          Point(b.MinX, b.MaxY), p.Pillar, FALSE),
      Point(b.MaxX, b.MaxY), p.Pillar, FALSE)

renderTower(g, p, t) ==
  LET bounds == radiusBounds(t.center, t.radius)
      g1 == Rect(g, bounds, p.Cobblestone, TRUE)
      g2 == RectOutline(g1, bounds, p.Building, FALSE)
      g3 == cornerPillars(g2, p, bounds)
      g4 == IF t.radius >= 3
              THEN Set(RectOutline(g3, radiusBounds(t.center, 1), p.WhiteBuilding, FALSE),
                       t.center, p.Star, TRUE)
              ELSE g3
  IN Set(g4, towerDoorPosition(t), p.Door, TRUE)

RECURSIVE placeGates(_, _, _, _)
placeGates(g, p, c, i) ==
  IF i > Len(c.entrances) THEN g
  ELSE placeGates(Set(g, gatePos(c, c.entrances[i]), p.Door, TRUE), p, c, i + 1)

renderCourtyard(g, p, c) ==
  LET g1 == Rect(g, interiorOf(c.bounds), p.Cobblestone, TRUE)
      g2 == RectOutline(g1, c.bounds, wallTileOf(p, c.wallStyle), FALSE)
      g3 == cornerPillars(g2, p, c.bounds)
      center == Center(c.bounds)
      g4 == Set(g3, center, p.Water, FALSE)
      g5 == Set(g4, Point(center.X - 1, center.Y), p.Sand, TRUE)
      g6 == Set(g5, Point(center.X + 1, center.Y), p.Sand, TRUE)
      g7 == Set(g6, Point(center.X, center.Y - 1), p.Sand, TRUE)
      g8 == Set(g7, Point(center.X, center.Y + 1), p.Sand, TRUE)
  IN placeGates(g8, p, c, 1)

renderShrine(g, p, s) ==
  LET bounds == radiusBounds(s.center, s.size)
      g1 == Rect(g, bounds, p.Cobblestone, TRUE)
      g2 == RectOutline(g1, bounds, p.Marker, TRUE)
  IN Set(g2, s.center, p.Star, TRUE)

renderPlaza(g, p, pl) ==
  IF pl.shape = "circle"
    THEN renderDisc(g, pl.center, pl.radius, p.Cobblestone, TRUE)
    ELSE Rect(g, radiusBounds(pl.center, pl.radius), p.Cobblestone, TRUE)

renderDock(g, p, d) ==
  LET dx == Delta(d.direction)[1]
      dy == Delta(d.direction)[2]
      halfWidth == GoDiv(d.width, 2)
      planks == { IF dx # 0 THEN Point(d.origin.X + dx * i, d.origin.Y + dy * i + w)
                  ELSE Point(d.origin.X + dx * i + w, d.origin.Y + dy * i) :
                  i \in 0..(d.length - 1), w \in (-halfWidth)..halfWidth }
      F(x, y) == IF Point(x, y) \in planks THEN << p.Dock, TRUE >> ELSE << >>
  IN PaintEach(g, Bounds(0, 0, g.Width - 1, g.Height - 1), F)

renderPond(g, pal, p) ==
  LET inner == (p.radius - 1) * (p.radius - 1)
      dist(x, y) == (x - p.center.X) * (x - p.center.X) + (y - p.center.Y) * (y - p.center.Y)
      water(x, y) == IF dist(x, y) < inner THEN << pal.Water, FALSE >> ELSE << >>
      g1 == PaintEach(g, radiusBounds(p.center, p.radius - 1), water)
      sand(x, y) == IF dist(x, y) >= inner /\ dist(x, y) <= p.radius * p.radius
                       /\ Get(g1, Point(x, y)) # pal.Water
                      THEN << pal.Sand, TRUE >> ELSE << >>
  IN PaintEach(g1, radiusBounds(p.center, p.radius), sand)

renderGarden(g, p, ga, rng) ==
  LET g1 == RectOutline(g, ga.bounds, p.Cobblestone, TRUE)
      g2 == Rect(g1, interiorOf(ga.bounds), p.Grass, TRUE)
  IN sweepAll(g2, rng, [loop |-> "Garden", b |-> interiorOf(ga.bounds), bush |-> p.Bush])

renderRuins(g, p, r, rng) ==
  sweepAll(g, rng, [loop |-> "Ruins", b |-> r.bounds, decay |-> r.decay,
                    wall |-> p.Building, floor |-> p.Cobblestone])

\* Render(g, palette) of the component c; the components that hold the RNG
\* advance it.  The result is [g, rng].
Render(g, p, c, rng) ==
  CASE c.kind = "shoreline" -> [g |-> renderShoreline(g, p, c), rng |-> rng]
    [] c.kind = "mountain" -> [g |-> renderMountainRange(g, p, c), rng |-> rng]
    [] c.kind = "grove" ->
         ScatterOnTile(g, c.bounds, p.Grass, IF c.treeType = "" THEN p.Tree ELSE c.treeType,
                       FALSE, c.density, rng)
    [] c.kind = "clearing" -> [g |-> renderDisc(g, c.center, c.radius, p.Grass, TRUE), rng |-> rng]
    [] c.kind = "building" -> [g |-> renderBuilding(g, p, c), rng |-> rng]
    [] c.kind = "cabin" -> [g |-> renderCabin(g, p, c), rng |-> rng]
    [] c.kind = "tower" -> [g |-> renderTower(g, p, c), rng |-> rng]
    [] c.kind = "courtyard" -> [g |-> renderCourtyard(g, p, c), rng |-> rng]
    [] c.kind = "shrine" -> [g |-> renderShrine(g, p, c), rng |-> rng]
    [] c.kind = "plaza" -> [g |-> renderPlaza(g, p, c), rng |-> rng]
    [] c.kind = "dock" -> [g |-> renderDock(g, p, c), rng |-> rng]
    [] c.kind = "bridge" -> [g |-> Line(g, c.start, c.end, p.Bridge, TRUE), rng |-> rng]
    [] c.kind = "scatter" -> Scatter(g, c.bounds, c.tile, FALSE, c.density, rng, {})
    [] c.kind = "border" ->
         [g |-> RectOutline(g, Expand(c.inner, 1), c.tile, c.walkable), rng |-> rng]
    [] c.kind = "signpost" -> [g |-> Set(g, c.position, p.Marker, TRUE), rng |-> rng]
    [] c.kind = "pond" -> [g |-> renderPond(g, p, c), rng |-> rng]
    [] c.kind = "garden" -> renderGarden(g, p, c, rng)
    [] c.kind = "ruins" -> renderRuins(g, p, c, rng)

(***************************************************************************)
(* Biomes and the ChunkGenerator.  Densities are in thousandths.            *)
(***************************************************************************)

ChunkSize ==
  50

BiomeRules(type, treeType, treeDensity, bushDensity) ==
  [Type |-> type, BaseTile |-> "^", BaseWalkable |-> TRUE, TreeType |-> treeType,
   TreeDensity |-> treeDensity, BushDensity |-> bushDensity]

GetBiome(t) ==
  CASE t = "grassland" -> BiomeRules("grassland", "T", 30, 10)
    [] t = "mountain" -> BiomeRules("mountain", "t", 50, 0)
    [] t = "coastal" -> BiomeRules("coastal", "T", 20, 20)
    [] t = "forest" -> BiomeRules("forest", "T", 150, 50)
    [] t = "urban" -> BiomeRules("urban", "T", 10, 20)
    [] t = "castle" -> BiomeRules("castle", "T", 20, 10)
    [] OTHER -> BiomeRules("grassland", "T", 30, 10)

\* A nil *Grid.
NilGrid ==
  NewGrid(0, 0, "", FALSE)

NewChunkGenerator(config) ==
  [config |-> config, palette |-> DefaultPalette, biome |-> GetBiome(config.Biome),
   rng |-> NewRNG(config.Seed), grid |-> NilGrid, graph |-> NewGraph,
   components |-> << >>, terrainFeatures |-> << >>, zones |-> << >>]

initGrid(cg) ==
  [cg EXCEPT !.grid = NewGrid(ChunkSize, ChunkSize, cg.biome.BaseTile, cg.biome.BaseWalkable)]

\* fmt.Sprintf("port_%d", dir)
PortID(dir) ==
  "port_" \o ToString(dir)

\* fmt.Sprintf("project_%s", id)
ProjectNodeID(id) ==
  "project_" \o id

createEdgePort(dir) ==
  LET mid == GoDiv(ChunkSize, 2)
      pos == CASE dir = North -> Point(mid, 0)
               [] dir = South -> Point(mid, ChunkSize - 1)
               [] dir = East -> Point(ChunkSize - 1, mid)
               [] dir = West -> Point(0, mid)
               [] OTHER -> Point(0, 0)
  IN [ID |-> PortID(dir), Type |-> NodeEdgePort, Position |-> pos,
      Anchors |-> << Anchor(pos, Opposite(dir)) >>,
      Bounds |-> Bounds(pos.X, pos.Y, pos.X, pos.Y), Zone |-> NilZone]

RECURSIVE addPorts(_, _, _)
addPorts(g, dirs, i) ==
  IF i > Len(dirs) THEN g ELSE addPorts(AddNode(g, createEdgePort(dirs[i])), dirs, i + 1)

buildGraph(cg) ==
  [cg EXCEPT !.graph = addPorts(NewGraph, cg.config.Connections, 1)]

placeTerrain(cg) ==
  LET shores == [i \in 1..Len(cg.config.Shorelines) |->
                   NewShoreline(cg.config.Shorelines[i], 3, 2, ChunkSize)]
      mtns == IF cg.config.Biome = "mountain"
                THEN << NewMountainRange(Bounds(3, 3, 25, 12), << Point(15, 10) >>, 2) >>
                ELSE << >>
  IN [cg EXCEPT !.components = (@ \o shores) \o mtns]

\* The safe area: each shoreline side moves its bound inwards.
safeBounds(cg) ==
  LET has(dir) == \E i \in DOMAIN cg.config.Shorelines : cg.config.Shorelines[i] = dir
      minY0 == IF has(North) THEN 15 ELSE 10
  IN [minX |-> IF has(West) THEN 15 ELSE 10,
      minY |-> IF cg.config.Biome = "mountain" THEN max(minY0, 20) ELSE minY0,
      maxX |-> IF has(East) THEN ChunkSize - 15 ELSE ChunkSize - 10,
      maxY |-> IF has(South) THEN ChunkSize - 15 ELSE ChunkSize - 10]

\* Natural numbers beyond the range of the checker's integers, as sequences of
\* base-1000 digits, least significant first.  They carry the exact values of
\* the polynomials of cos and sin below.
RECURSIVE bigTimes(_, _, _)
bigTimes(a, m, carry) ==
  IF a = << >>
    THEN (IF carry = 0 THEN << >> ELSE << carry % 1000 >> \o bigTimes(<< >>, m, carry \div 1000))
    ELSE << (Head(a) * m + carry) % 1000 >>
           \o bigTimes(Tail(a), m, (Head(a) * m + carry) \div 1000)

RECURSIVE bigPlus(_, _, _)
bigPlus(a, b, carry) ==
  IF a = << >> /\ b = << >>
    THEN (IF carry = 0 THEN << >> ELSE << carry >>)
    ELSE LET v == (IF a = << >> THEN 0 ELSE Head(a)) + (IF b = << >> THEN 0 ELSE Head(b)) + carry
         IN << v % 1000 >> \o bigPlus(IF a = << >> THEN << >> ELSE Tail(a),
                                       IF b = << >> THEN << >> ELSE Tail(b), v \div 1000)

\* -1, 0 or 1 as a is less than, equal to or greater than b.
RECURSIVE bigCompare(_, _)
bigCompare(a, b) ==
  IF a = << >> /\ b = << >> THEN 0
  ELSE LET ha == IF a = << >> THEN 0 ELSE Head(a)
           hb == IF b = << >> THEN 0 ELSE Head(b)
           upper == bigCompare(IF a = << >> THEN << >> ELSE Tail(a),
                               IF b = << >> THEN << >> ELSE Tail(b))
       IN IF upper # 0 THEN upper ELSE IF ha < hb THEN -1 ELSE IF ha > hb THEN 1 ELSE 0

\* a times m to the power n.
RECURSIVE bigTimesPower(_, _, _)
bigTimesPower(a, m, n) ==
  IF n = 0 THEN a ELSE bigTimesPower(bigTimes(a, m, 0), m, n - 1)

\* The largest k in lo..(hi - 1) with k * d + less <= more, by bisection; lo
\* satisfies the inequality and hi does not.
RECURSIVE bigQuotient(_, _, _, _, _)
bigQuotient(more, less, d, lo, hi) ==
  IF hi - lo <= 1 THEN lo
  ELSE LET mid == (lo + hi) \div 2
       IN IF bigCompare(bigPlus(bigTimes(d, mid, 0), less, 0), more) <= 0
            THEN bigQuotient(more, less, d, mid, hi)
            ELSE bigQuotient(more, less, d, lo, mid)

\* The angle of project i of count is float64(i) * (6.28318 / float64(count)),
\* the fraction (i * 314159) / (count * 50000); it is below 2*pi, so mod2pi
\* leaves it as it is.  angleTerm is c * x^a as a multiple of 1 / q^n, for the
\* angle x = p / q.
angleTerm(i, count, c, a, n) ==
  bigTimesPower(bigTimesPower(bigTimesPower(bigTimesPower(
    bigTimes(<< 1 >>, c, 0), i, a), 314159, a), count, n - a), 50000, n - a)

\* int(float64(radius) * (pos - neg) / d): the conversion truncates toward zero.
\* The magnitude is below 4096 for an angle below 2*pi and a radius up to 16.
truncatedProduct(radius, pos, neg, d) ==
  LET rp == bigTimes(pos, radius, 0)
      rn == bigTimes(neg, radius, 0)
  IN IF bigCompare(rp, rn) >= 0 THEN bigQuotient(rp, rn, d, 0, 4096)
     ELSE -bigQuotient(rn, rp, d, 0, 4096)

\* int(float64(radius) * cos(angle)), cos(x) = 1 - x^2/2 + x^4/24 - x^6/720,
\* over the common denominator 720 * q^6.
radiusCos(radius, i, count) ==
  truncatedProduct(radius,
                   bigPlus(angleTerm(i, count, 720, 0, 6), angleTerm(i, count, 30, 4, 6), 0),
                   bigPlus(angleTerm(i, count, 360, 2, 6), angleTerm(i, count, 1, 6, 6), 0),
                   angleTerm(i, count, 720, 0, 6))

\* int(float64(radius) * sin(angle)), sin(x) = x - x^3/6 + x^5/120 - x^7/5040,
\* over the common denominator 5040 * q^7.
radiusSin(radius, i, count) ==
  truncatedProduct(radius,
                   bigPlus(angleTerm(i, count, 5040, 1, 7), angleTerm(i, count, 42, 5, 7), 0),
                   bigPlus(angleTerm(i, count, 840, 3, 7), angleTerm(i, count, 1, 7, 7), 0),
                   angleTerm(i, count, 5040, 0, 7))

\* The positions of the projects: fixed layouts for one to four, a circle
\* around the centre of the safe area for five or more (and none for zero).
calculateProjectPositions(cg, count) ==
  LET s == safeBounds(cg)
      centerX == GoDiv(s.minX + s.maxX, 2)
      centerY == GoDiv(s.minY + s.maxY, 2)
      safeWidth == s.maxX - s.minX
      safeHeight == s.maxY - s.minY
      x3 == GoDiv(safeWidth, 3)
      y3 == GoDiv(safeHeight, 3)
  IN CASE count = 1 -> << Point(centerX, centerY) >>
       [] count = 2 -> << Point(centerX - GoDiv(safeWidth, 4), centerY - GoDiv(safeHeight, 4)),
                          Point(centerX + GoDiv(safeWidth, 4), centerY + GoDiv(safeHeight, 4)) >>
       [] count = 3 -> << Point(centerX, centerY - y3),
                          Point(centerX - x3, centerY + GoDiv(y3, 2)),
                          Point(centerX + x3, centerY + GoDiv(y3, 2)) >>
       [] count = 4 -> << Point(centerX - x3, centerY - y3), Point(centerX + x3, centerY - y3),
                          Point(centerX - x3, centerY + y3), Point(centerX + x3, centerY + y3) >>
       [] OTHER -> LET radius == GoDiv(min(safeWidth, safeHeight), 3)
                   IN [k \in 1..count |->
                         Point(centerX + radiusCos(radius, k - 1, count),
                               centerY + radiusSin(radius, k - 1, count))]

findBestEntrance(pos, size) ==
  LET dx == GoDiv(ChunkSize, 2) - pos.X
      dy == GoDiv(ChunkSize, 2) - pos.Y
  IN IF abs(dx) > abs(dy) THEN (IF dx > 0 THEN East ELSE West)
     ELSE IF dy > 0 THEN South ELSE North

\* The component of one project; zone is the freshly allocated *Zone.
projectComponent(proj, pos, zone) ==
  CASE proj.Structure = "tower" ->
         NewTower(pos, 3 + proj.Size, findBestEntrance(pos, 3 + proj.Size), zone)
    [] proj.Structure = "shrine" -> NewShrine(pos, proj.Size, zone)
    [] proj.Structure = "courtyard" ->
         LET size == 4 + proj.Size * 2
         IN NewCourtyard(Bounds(pos.X - size, pos.Y - size, pos.X + size, pos.Y + size),
                         "stone", << South >>, zone)
    [] proj.Structure = "cabin" ->
         LET size == 3 + proj.Size
         IN NewCabin(Bounds(pos.X - size, pos.Y - GoDiv(size, 2), pos.X + size, pos.Y + GoDiv(size, 2)),
                     findBestEntrance(pos, size), zone)
    [] OTHER ->
         LET size == 3 + proj.Size
         IN NewBuilding(Bounds(pos.X - size, pos.Y - GoDiv(size, 2), pos.X + size, pos.Y + GoDiv(size, 2)),
                        "stone", findBestEntrance(pos, size), zone)

\* One turn of the loop over config.Projects.  The zone is shared by the
\* component, cg.zones and the node, so all three see the bounds written after
\* the component is built.
placeProject(cg, proj, pos) ==
  LET ref == Len(cg.zones) + 1
      zone0 == Zone(proj.Name, proj.Description, NoBounds, proj.ProjectID, ref)
      zone == [zone0 EXCEPT !.Bounds = GetBounds(projectComponent(proj, pos, << zone0 >>))]
      comp == projectComponent(proj, pos, << zone >>)
      node == [ID |-> ProjectNodeID(proj.ProjectID), Type |-> NodeComponent, Position |-> pos,
               Anchors |-> GetAnchors(comp), Bounds |-> GetBounds(comp), Zone |-> << zone >>]
  IN [cg EXCEPT !.components = Append(@, comp),
                !.zones = Append(@, zone),
                !.graph = AddNode(@, node)]

RECURSIVE placeProjectsFrom(_, _, _)
placeProjectsFrom(cg, positions, i) ==
  IF i > Len(cg.config.Projects) THEN cg
  ELSE placeProjectsFrom(placeProject(cg, cg.config.Projects[i], positions[i]), positions, i + 1)

\* placeProjects has no failing return.
placeProjects(cg) ==
  IF Len(cg.config.Projects) = 0 THEN cg
  ELSE placeProjectsFrom(cg, calculateProjectPositions(cg, Len(cg.config.Projects)), 1)

RECURSIVE hubToPorts(_, _, _)
hubToPorts(g, dirs, i) ==
  IF i > Len(dirs) THEN g ELSE hubToPorts(AddEdge(g, "hub", PortID(dirs[i]), TRUE), dirs, i + 1)

RECURSIVE hubToProjects(_, _, _)
hubToProjects(g, projects, i) ==
  IF i > Len(projects) THEN g
  ELSE hubToProjects(AddEdge(g, "hub", ProjectNodeID(projects[i].ProjectID), TRUE), projects, i + 1)

\* A variant of the hub's edges that joins the hub to the edge ports only.
hubEdgesPortsOnly(g, config) ==
  hubToPorts(g, config.Connections, 1)

hubEdges(g, config) ==
  hubToProjects(hubToPorts(g, config.Connections, 1), config.Projects, 1)

placeHub(cg) ==
  IF Len(cg.config.Connections) > 1 \/ Len(cg.config.Projects) > 0
    THEN LET center == Point(GoDiv(ChunkSize, 2), GoDiv(ChunkSize, 2))
             plaza == NewPlaza(center, 3, "square")
             hubNode == [ID |-> "hub", Type |-> NodeHub, Position |-> center,
                         Anchors |-> GetAnchors(plaza), Bounds |-> GetBounds(plaza),
                         Zone |-> NilZone]
         IN [cg EXCEPT !.components = Append(@, plaza),
                       !.graph = hubEdges(AddNode(@, hubNode), cg.config)]
    ELSE cg

\* One turn of the loop over config.Connections.
\* A variant that puts the signpost three tiles inside the side.
placeSignpostThreeInside(cg, dir) ==
  LET hints == cg.config.SignpostHints
      hint0 == IF dir \in DOMAIN hints THEN hints[dir] ELSE ""
      hint == IF hint0 = "" THEN "A path leads onward..." ELSE hint0
      offset == 3
      mid == GoDiv(ChunkSize, 2)
      pos == CASE dir = North -> Point(mid, offset)
               [] dir = South -> Point(mid, ChunkSize - 1 - offset)
               [] dir = East -> Point(ChunkSize - 1 - offset, mid)
               [] dir = West -> Point(offset, mid)
               [] OTHER -> Point(0, 0)
      signpost == NewSignpost(pos, dir, "", hint, Len(cg.zones) + 1)
  IN [cg EXCEPT !.components = Append(@, signpost),
                !.zones = Append(@, GetZone(signpost)[1])]

placeSignpost(cg, dir) ==
  LET hints == cg.config.SignpostHints
      hint0 == IF dir \in DOMAIN hints THEN hints[dir] ELSE ""
      hint == IF hint0 = "" THEN "A path leads onward..." ELSE hint0
      offset == 4
      mid == GoDiv(ChunkSize, 2)
      pos == CASE dir = North -> Point(mid, offset)
               [] dir = South -> Point(mid, ChunkSize - 1 - offset)
               [] dir = East -> Point(ChunkSize - 1 - offset, mid)
               [] dir = West -> Point(offset, mid)
               [] OTHER -> Point(0, 0)
      signpost == NewSignpost(pos, dir, "", hint, Len(cg.zones) + 1)
  IN [cg EXCEPT !.components = Append(@, signpost),
                !.zones = Append(@, GetZone(signpost)[1])]

RECURSIVE placeSignpostsFrom(_, _)
placeSignpostsFrom(cg, i) ==
  IF i > Len(cg.config.Connections) THEN cg
  ELSE placeSignpostsFrom(placeSignpost(cg, cg.config.Connections[i]), i + 1)

placeSignposts(cg) ==
  placeSignpostsFrom(cg, 1)

\* for _, comp := range comps { comp.Render(grid, palette) } on st = [g, rng].
RECURSIVE renderAll(_, _, _, _)
renderAll(st, p, comps, i) ==
  IF DOMAIN st = {} \/ i > Len(comps) THEN st
  ELSE renderAll(Render(st.g, p, comps[i], st.rng), p, comps, i + 1)

renderComponents(cg) ==
  LET st == renderAll([g |-> cg.grid, rng |-> cg.rng], cg.palette, cg.components, 1)
  IN [cg EXCEPT !.grid = st.g, !.rng = st.rng]

\* An error returned by Generate: the wrapping prefix, the message and its arguments.
NoError ==
  [stage |-> "", msg |-> "", a |-> "", b |-> "", ids |-> << >>]

Error(stage, msg, a, b, ids) ==
  [stage |-> stage, msg |-> msg, a |-> a, b |-> b, ids |-> ids]

\* A variant of componentAvoid that avoids every cell of the bounds but the
\* anchors, walkable or not.
componentAvoidWholeBounds(g, comp) ==
  LET b == GetBounds(comp)
      anchors == { GetAnchors(comp)[k].Position : k \in DOMAIN GetAnchors(comp) }
  IN { p \in { Point(x, y) : x \in b.MinX..b.MaxX, y \in b.MinY..b.MaxY } :
         p \notin anchors }

\* The cells of the bounds of comp that routing avoids: not an anchor of comp
\* and not walkable.
componentAvoid(g, comp) ==
  LET b == GetBounds(comp)
      anchors == { GetAnchors(comp)[k].Position : k \in DOMAIN GetAnchors(comp) }
  IN { p \in { Point(x, y) : x \in b.MinX..b.MaxX, y \in b.MinY..b.MaxY } :
         p \notin anchors /\ ~IsWalkable(g, p) }

routeAvoid(cg) ==
  UNION { componentAvoid(cg.grid, cg.components[i]) : i \in DOMAIN cg.components }

findClosestAnchor(node, target) ==
  IF Len(node.Anchors) = 0 THEN node.Position
  ELSE LET dist(k) == manhattanDist(node.Anchors[k].Position, target)
           \* the first anchor at the least distance
           best == CHOOSE k \in DOMAIN node.Anchors :
                     /\ \A j \in DOMAIN node.Anchors : dist(k) <= dist(j)
                     /\ \A j \in 1..(k - 1) : dist(j) > dist(k)
       IN node.Anchors[best].Position

\* for _, p := range path { if Get(p) is Grass or Sand { Set(p, Path, true) } }
drawPath(g, p, path) ==
  LET cells == { path[k] : k \in DOMAIN path }
      F(x, y) == IF Point(x, y) \in cells /\ g.Tiles[y][x] \in { p.Grass, p.Sand }
                   THEN << p.Path, TRUE >> ELSE << >>
  IN PaintEach(g, Bounds(0, 0, g.Width - 1, g.Height - 1), F)

\* One turn of the loop over graph.Edges, on st = [cg, err].
routeEdge(cg, avoid, i) ==
  LET edge == cg.graph.Edges[i]
      fromNode == cg.graph.Nodes[edge.From]
      toNode == cg.graph.Nodes[edge.To]
      fromAnchor == findClosestAnchor(fromNode, toNode.Position)
      toAnchor == findClosestAnchor(toNode, fromNode.Position)
      avoided == FindPathAvoid(cg.grid, fromAnchor, toAnchor, avoid)
      path == IF avoided = NoPath /\ edge.Required
                THEN FindPath(cg.grid, fromAnchor, toAnchor, {}) ELSE avoided
  IN IF path = NoPath /\ edge.Required
       THEN [cg |-> cg,
             err |-> Error("routing paths", "could not route required path",
                           edge.From, edge.To, << >>)]
     ELSE IF path # NoPath
       THEN [cg |-> [cg EXCEPT !.graph.Edges[i].Path = path,
                               !.grid = drawPath(cg.grid, cg.palette, path)],
             err |-> NoError]
     ELSE [cg |-> cg, err |-> NoError]

RECURSIVE routeFrom(_, _, _)
routeFrom(st, avoid, i) ==
  IF st.err # NoError \/ i > Len(st.cg.graph.Edges) THEN st
  ELSE routeFrom(routeEdge(st.cg, avoid, i), avoid, i + 1)

\* routePaths returns [cg, err]; err is NoError for a nil error.
routePaths(cg) ==
  routeFrom([cg |-> cg, err |-> NoError], routeAvoid(cg), 1)

placeTerrainFeatures(cg) ==
  CASE cg.config.Biome = "grassland" ->
         LET s1 == Uint64(cg.rng)
             s2 == Uint64(s1)
             s3 == Uint64(s2)
         IN IF Float64Less(s1, 500)
              THEN [cg EXCEPT !.rng = s3,
                              !.terrainFeatures =
                                 Append(@, NewPond(Point(10 + Intn(s2, 8), 38 + Intn(s3, 5)), 3))]
              ELSE [cg EXCEPT !.rng = s1]
    [] cg.config.Biome = "forest" ->
         [cg EXCEPT !.terrainFeatures =
                       @ \o << NewGrove(Bounds(5, 5, 12, 12), 350, cg.palette.Tree),
                               NewGrove(Bounds(38, 38, 45, 45), 350, cg.palette.Tree) >>]
    [] cg.config.Biome = "coastal" ->
         LET dock == NewDock(Point(ChunkSize - 8, GoDiv(ChunkSize, 2)), East, 5, 3, NilZone)
             easts == SelectSeq(cg.config.Shorelines, LAMBDA dir : dir = East)
         IN [cg EXCEPT !.terrainFeatures = @ \o [i \in 1..Len(easts) |-> dock]]
    [] cg.config.Biome = "urban" ->
         [cg EXCEPT !.terrainFeatures = Append(@, NewGarden(Bounds(8, 38, 15, 45)))]
    [] cg.config.Biome = "castle" ->
         [cg EXCEPT !.terrainFeatures = Append(@, NewRuins(Bounds(38, 5, 44, 10), 400))]
    [] cg.config.Biome = "mountain" ->
         [cg EXCEPT !.terrainFeatures =
                       Append(@, NewGrove(Bounds(35, 38, 42, 45), 200, cg.palette.PineTree))]
    [] OTHER -> cg

renderTerrainFeatures(cg) ==
  LET st == renderAll([g |-> cg.grid, rng |-> cg.rng], cg.palette, cg.terrainFeatures, 1)
  IN [cg EXCEPT !.grid = st.g, !.rng = st.rng]

\* A variant of addDecoration that scatters with no avoid set.
addDecorationAnywhere(cg) ==
  LET g == cg.grid
      fullBounds == Bounds(0, 0, ChunkSize - 1, ChunkSize - 1)
      st0 == [g |-> g, rng |-> cg.rng]
      st1 == IF cg.biome.TreeDensity > 0
               THEN Scatter(st0.g, fullBounds, cg.biome.TreeType, FALSE,
                            cg.biome.TreeDensity, st0.rng, {})
               ELSE st0
      st2 == IF cg.biome.BushDensity > 0
               THEN Scatter(st1.g, fullBounds, cg.palette.Bush, FALSE,
                            cg.biome.BushDensity, st1.rng, {})
               ELSE st1
  IN [cg EXCEPT !.grid = st2.g, !.rng = st2.rng]

\* A variant of addDecoration whose trees and bushes can be walked through.
addDecorationWalkable(cg) ==
  LET g == cg.grid
      avoid == { p \in { Point(x, y) : x \in 0..(ChunkSize - 1), y \in 0..(ChunkSize - 1) } :
                   Get(g, p) # cg.palette.Grass }
      fullBounds == Bounds(0, 0, ChunkSize - 1, ChunkSize - 1)
      st0 == [g |-> g, rng |-> cg.rng]
      st1 == IF cg.biome.TreeDensity > 0
               THEN Scatter(st0.g, fullBounds, cg.biome.TreeType, TRUE,
                            cg.biome.TreeDensity, st0.rng, avoid)
               ELSE st0
      st2 == IF cg.biome.BushDensity > 0
               THEN Scatter(st1.g, fullBounds, cg.palette.Bush, TRUE,
                            cg.biome.BushDensity, st1.rng, avoid)
               ELSE st1
  IN [cg EXCEPT !.grid = st2.g, !.rng = st2.rng]

\* Trees, then bushes, over the whole chunk; both avoid the cells that were
\* not grass before the trees were added.
addDecoration(cg) ==
  LET g == cg.grid
      avoid == { p \in { Point(x, y) : x \in 0..(ChunkSize - 1), y \in 0..(ChunkSize - 1) } :
                   Get(g, p) # cg.palette.Grass }
      fullBounds == Bounds(0, 0, ChunkSize - 1, ChunkSize - 1)
      st0 == [g |-> g, rng |-> cg.rng]
      st1 == IF cg.biome.TreeDensity > 0
               THEN Scatter(st0.g, fullBounds, cg.biome.TreeType, FALSE,
                            cg.biome.TreeDensity, st0.rng, avoid)
               ELSE st0
      st2 == IF cg.biome.BushDensity > 0
               THEN Scatter(st1.g, fullBounds, cg.palette.Bush, FALSE,
                            cg.biome.BushDensity, st1.rng, avoid)
               ELSE st1
  IN [cg EXCEPT !.grid = st2.g, !.rng = st2.rng]

\* The walkable cells of the grid next to a cell of s.
walkableBeside(g, s) ==
  { q \in UNION { { AdjacentPts(p)[k] : k \in 1..4 } : p \in s } :
      InBounds(g, q) /\ IsWalkable(g, q) }

\* One more ring of cells around the region st = [reachable, frontier, done].
spreadOnce(st, g) ==
  LET next == walkableBeside(g, st.frontier) \ st.reachable
  IN IF next = {} THEN [st EXCEPT !.done = TRUE]
     ELSE [st EXCEPT !.reachable = @ \cup next, !.frontier = next]

\* At most n rings, the first half of them before the second.
RECURSIVE spread(_, _, _)
spread(st, n, g) ==
  IF st.done \/ n = 0 THEN st
  ELSE IF n = 1 THEN spreadOnce(st, g)
  ELSE LET first == spread(st, n \div 2, g)
       IN IF first.done THEN first ELSE spread(first, n - (n \div 2), g)

\* The region grown from the cells of start until no ring adds a cell; no
\* region has more rings than the grid has cells.
spreadAll(g, start) ==
  spread([reachable |-> start, frontier |-> start, done |-> FALSE], g.Width * g.Height, g).reachable

\* A variant that takes every cell of the grid to be reachable.
floodFillThroughWalls(g, start) ==
  { Point(x, y) : x \in 0..(g.Width - 1), y \in 0..(g.Height - 1) }

\* floodFillReachable: the set of keys of the map returned, which are the
\* cells the queue reaches from start over walkable cells of the grid.
floodFillReachable(g, start) ==
  IF InBounds(g, start) /\ IsWalkable(g, start) THEN spreadAll(g, { start }) ELSE {}

\* zoneReachable || reachable[zone.Bounds.Center()] in validate; comp.GetZone()
\* == zone compares pointers.
zoneReached(cg, zone, reachable) ==
  \/ \E i \in DOMAIN cg.components :
       LET comp == cg.components[i]
       IN /\ GetZone(comp) # NilZone
          /\ GetZone(comp)[1].Ref = zone.Ref
          /\ \E k \in DOMAIN GetAnchors(comp) : GetAnchors(comp)[k].Position \in reachable
  \/ Center(zone.Bounds) \in reachable

\* The loop over the ports, from the i-th on: the first zone that the first
\* failing port does not reach.
RECURSIVE validatePorts(_, _, _)
validatePorts(cg, ports, i) ==
  IF i > Len(ports) THEN NoError
  ELSE LET port == cg.graph.Nodes[ports[i]]
           reachable == floodFillReachable(cg.grid, port.Position)
           missed == { z \in DOMAIN cg.zones : ~zoneReached(cg, cg.zones[z], reachable) }
       IN IF missed = {} THEN validatePorts(cg, ports, i + 1)
          ELSE LET z == CHOOSE z \in missed : \A y \in missed : z <= y
               IN Error("validation failed", "zone not reachable from port",
                        cg.zones[z].Name, port.ID, << >>)

\* validate, where the range over the node map yields the ports in the order
\* ports and FindUnreachable ranges over it in the order order.
validate(cg, ports, order) ==
  IF Len(ports) = 0
    THEN Error("validation failed", "chunk has no edge connections", "", "", << >>)
  ELSE IF ~IsConnected(cg.graph, ports[1])
    THEN Error("validation failed", "unreachable nodes", "", "",
               FindUnreachable(cg.graph, ports[1], order))
  ELSE validatePorts(cg, ports, 1)

buildOutput(cg) ==
  [Tiles |-> cg.grid.Tiles,
   Zones |-> [i \in 1..Len(cg.zones) |->
                [Name |-> cg.zones[i].Name, Description |-> cg.zones[i].Description,
                 Bounds |-> [MinX |-> cg.zones[i].Bounds.MinX, MaxX |-> cg.zones[i].Bounds.MaxX,
                             MinY |-> cg.zones[i].Bounds.MinY, MaxY |-> cg.zones[i].Bounds.MaxY],
                 ProjectID |-> cg.zones[i].ProjectID]]]

\* A variant that places and renders the terrain features before routing.
stageAfterFeaturesFirst(stage) ==
  CASE stage = "initGrid" -> "buildGraph"
    [] stage = "buildGraph" -> "placeTerrain"
    [] stage = "placeTerrain" -> "placeProjects"
    [] stage = "placeProjects" -> "placeHub"
    [] stage = "placeHub" -> "placeSignposts"
    [] stage = "placeSignposts" -> "renderComponents"
    [] stage = "renderComponents" -> "placeTerrainFeatures"
    [] stage = "placeTerrainFeatures" -> "renderTerrainFeatures"
    [] stage = "renderTerrainFeatures" -> "routePaths"
    [] stage = "routePaths" -> "addDecoration"
    [] stage = "addDecoration" -> "validate"
    [] stage = "validate" -> "buildOutput"
    [] stage = "buildOutput" -> "done"

\* The stage Generate runs after a stage that returned no error.
stageAfter(stage) ==
  CASE stage = "initGrid" -> "buildGraph"
    [] stage = "buildGraph" -> "placeTerrain"
    [] stage = "placeTerrain" -> "placeProjects"
    [] stage = "placeProjects" -> "placeHub"
    [] stage = "placeHub" -> "placeSignposts"
    [] stage = "placeSignposts" -> "renderComponents"
    [] stage = "renderComponents" -> "routePaths"
    [] stage = "routePaths" -> "placeTerrainFeatures"
    [] stage = "placeTerrainFeatures" -> "renderTerrainFeatures"
    [] stage = "renderTerrainFeatures" -> "addDecoration"
    [] stage = "addDecoration" -> "validate"
    [] stage = "validate" -> "buildOutput"
    [] stage = "buildOutput" -> "done"

(***************************************************************************)
(* State                                                                   *)
(***************************************************************************)

VARIABLES
  graph,   \* the Graph under construction, queried, or held by the generator
  ghist,   \* what the AddNode / AddEdge calls made so far included
  qret,    \* the last query made on the graph and what it returned
  grid,    \* the Grid drawn on
  gop,     \* the last call made on the grid, its arguments and the grid before it
  rng,     \* the state of the seeded RNG
  cg,      \* the ChunkGenerator
  pc,      \* the stage Generate runs next, "done" once it has returned
  outcome, \* what Generate returned: a ChunkDefinition or an error
  stages,  \* the stages Generate has run, in order
  run,     \* how many times a generator was made for the configuration
  first,   \* what the first run of Generate returned
  ws,      \* the WorldService: the world manifest and the chunks cache
  disk,    \* the chunk files under the data path: readable, missing or not JSON
  calls,   \* the GetChunk calls in progress, one per request
  fatal,   \* the Go runtime has stopped the process on a concurrent map access
  cli,     \* the run of the batch driver: its arguments, loop position and files written
  search   \* a FindPath or FindPathAvoid run in progress, turn by turn

graphVars ==
  << graph, ghist, qret >>

gridVars ==
  << grid, gop, rng >>

genVars ==
  << cg, pc, outcome, stages, run, first >>

webVars ==
  << ws, disk, calls, fatal >>

\* The variables of the web service, the batch driver and the stepwise search.
restVars ==
  << ws, disk, calls, fatal, cli, search >>

vars ==
  << graph, ghist, qret, grid, gop, rng, cg, pc, outcome, stages, run, first,
     ws, disk, calls, fatal, cli, search >>

NoQuery ==
  [op |-> "none", start |-> "", order |-> << >>, value |-> << >>]

NoCall ==
  [n |-> 0, op |-> "none"]

\* The values of the variables a specification does not use.
GraphIdle ==
  /\ graph = NewGraph
  /\ ghist = [failedEdge |-> FALSE, reusedId |-> FALSE]
  /\ qret = NoQuery

GridIdle ==
  /\ grid = NewGrid(0, 0, "", FALSE)
  /\ gop = NoCall
  /\ rng = NewRNG(0)

\* Generate has not returned.
NoOutcome ==
  [def |-> << >>, err |-> NoError]

GenIdle ==
  /\ cg = << >>
  /\ pc = "idle"
  /\ outcome = NoOutcome
  /\ stages = << >>
  /\ run = 0
  /\ first = NoOutcome

WebIdle ==
  /\ ws = [world |-> [Chunks |-> << >>], chunks |-> << >>]
  /\ disk = << >>
  /\ calls = << >>
  /\ fatal = FALSE

CliIdle ==
  cli = [pc |-> "idle"]

SearchIdle ==
  search = [op |-> "none"]

RestIdle ==
  WebIdle /\ CliIdle /\ SearchIdle

(***************************************************************************)
(* SpecGraph: any sequence of AddNode and AddEdge calls                    *)
(***************************************************************************)

MaxNodeIds ==
  2

MaxGraphEdges ==
  2

IdList ==
  << "a", "b", "c", "d", "e" >>

NodeIds ==
  { IdList[i] : i \in 1..MaxNodeIds }

GraphPositions ==
  { Point(0, 0), Point(3, 1) }

\* A node as the callers of AddNode build it; Zone is << >> for a nil pointer.
MkNode(id, type, pos, anchors, bounds, zone) ==
  [ID |-> id, Type |-> type, Position |-> pos, Anchors |-> anchors,
   Bounds |-> bounds, Zone |-> zone]

PlainNode(id, pos) ==
  MkNode(id, NodeComponent, pos, << >>, Bounds(pos.X, pos.Y, pos.X, pos.Y), << >>)

InitGraph ==
  /\ graph = NewGraph
  /\ ghist = [failedEdge |-> FALSE, reusedId |-> FALSE]
  /\ qret = NoQuery
  /\ GridIdle
  /\ GenIdle
  /\ RestIdle

GAddNode ==
  \E id \in NodeIds, pos \in GraphPositions :
    /\ graph' = AddNode(graph, PlainNode(id, pos))
    /\ ghist' = [ghist EXCEPT !.reusedId = @ \/ HasNode(graph, id)]
    /\ UNCHANGED << qret, gridVars, genVars, restVars >>

GAddEdge ==
  \E fromID \in NodeIds, toID \in NodeIds, required \in BOOLEAN :
    /\ AddEdgeOk(graph, fromID, toID) => Len(graph.Edges) < MaxGraphEdges
    /\ graph' = AddEdge(graph, fromID, toID, required)
    /\ ghist' = [ghist EXCEPT !.failedEdge = @ \/ ~AddEdgeOk(graph, fromID, toID)]
    /\ UNCHANGED << qret, gridVars, genVars, restVars >>

NextGraph ==
  GAddNode \/ GAddEdge

SpecGraph ==
  InitGraph /\ [][NextGraph]_vars

\* Occurrences of x in the sequence s.
Count(x, s) ==
  Cardinality({ i \in DOMAIN s : s[i] = x })

\* The number of edges of the edge list that join a and b, in either direction.
EdgesJoining(g, a, b) ==
  Cardinality({ i \in DOMAIN g.Edges :
                  \/ (g.Edges[i].From = a /\ g.Edges[i].To = b)
                  \/ (g.Edges[i].From = b /\ g.Edges[i].To = a) })

\* C4: after any sequence of AddNode and AddEdge calls every edge joins two
\* keys of Nodes, and for all ids a # b the occurrences of b in Adjacent[a],
\* of a in Adjacent[b] and the edges joining a and b are equally many.
C4_GraphInvariant ==
  /\ \A i \in DOMAIN graph.Edges :
       graph.Edges[i].From \in DOMAIN graph.Nodes /\ graph.Edges[i].To \in DOMAIN graph.Nodes
  /\ \A a \in NodeIds, b \in NodeIds :
       a # b =>
         /\ Count(b, AdjacentOf(graph, a)) = Count(a, AdjacentOf(graph, b))
         /\ Count(b, AdjacentOf(graph, a)) = EdgesJoining(graph, a, b)

\* A failed AddEdge, a reused id, a self-loop and an edge between distinct nodes.
C4_Witness ==
  /\ ghist.failedEdge /\ ghist.reusedId
  /\ \E i \in DOMAIN graph.Edges : graph.Edges[i].From = graph.Edges[i].To
  /\ \E i \in DOMAIN graph.Edges : graph.Edges[i].From # graph.Edges[i].To

(***************************************************************************)
(* SpecQuery: MST, IsConnected and FindUnreachable on graphs built by       *)
(* AddNode and AddEdge                                                      *)
(***************************************************************************)

MaxQueryIds ==
  3

MaxQueryEdges ==
  3

QueryIds ==
  { IdList[i] : i \in 1..MaxQueryIds }

\* Start ids of the queries: the ids a graph may hold and one it never holds.
StartIds ==
  { IdList[i] : i \in 1..(MaxQueryIds + 1) }

\* The position each id is added at (pairwise distances 4, 6, 6, 8, 4, 4, ...).
QueryPos ==
  [id \in { IdList[i] : i \in DOMAIN IdList } |->
     CASE id = "a" -> Point(0, 0)
       [] id = "b" -> Point(3, 1)
       [] id = "c" -> Point(1, 5)
       [] id = "d" -> Point(4, 4)
       [] OTHER -> Point(7, 0)]

RECURSIVE addNodes(_, _)
addNodes(g, S) ==
  IF S = {} THEN g
  ELSE LET id == CHOOSE x \in S : TRUE
       IN addNodes(AddNode(g, PlainNode(id, QueryPos[id])), S \ {id})

RECURSIVE addEdges(_, _)
addEdges(g, es) ==
  IF es = << >> THEN g
  ELSE addEdges(AddEdge(g, Head(es)[1], Head(es)[2], TRUE), Tail(es))

\* Every graph with nodes among QueryIds and at most MaxQueryEdges edges,
\* self-loops and parallel edges included, as AddNode and AddEdge build it.
QueryGraphs ==
  { addEdges(addNodes(NewGraph, S), es) :
      <<S, es>> \in UNION { {S} \X UNION { [1..k -> S \X S] : k \in 0..MaxQueryEdges } :
                            S \in SUBSET QueryIds } }

InitQuery ==
  /\ graph \in QueryGraphs
  /\ ghist = [failedEdge |-> FALSE, reusedId |-> FALSE]
  /\ qret = NoQuery
  /\ GridIdle
  /\ GenIdle
  /\ RestIdle

\* The queries read the graph and leave it as it is, so a behaviour makes one.
QMST ==
  /\ qret = NoQuery
  /\ qret' = [op |-> "MST", start |-> "", order |-> << >>, value |-> MSTIdx(graph)]
  /\ UNCHANGED << graph, ghist, gridVars, genVars, restVars >>

QIsConnected ==
  /\ qret = NoQuery
  /\ \E startID \in StartIds :
    /\ qret' = [op |-> "IsConnected", start |-> startID, order |-> << >>,
                value |-> IsConnected(graph, startID)]
    /\ UNCHANGED << graph, ghist, gridVars, genVars, restVars >>

QFindUnreachable ==
  /\ qret = NoQuery
  /\ \E startID \in StartIds, order \in MapOrders(graph) :
    /\ qret' = [op |-> "FindUnreachable", start |-> startID, order |-> order,
                value |-> FindUnreachable(graph, startID, order)]
    /\ UNCHANGED << graph, ghist, gridVars, genVars, restVars >>

NextQuery ==
  QMST \/ QIsConnected \/ QFindUnreachable

SpecQuery ==
  InitQuery /\ [][NextQuery]_vars

\* The ids joined to a by the edges of g with an index in T.
RECURSIVE Component(_, _, _)
Component(g, T, seen) ==
  LET more == { g.Edges[i].To : i \in { j \in T : g.Edges[j].From \in seen } }
              \cup { g.Edges[i].From : i \in { j \in T : g.Edges[j].To \in seen } }
  IN IF more \subseteq seen THEN seen ELSE Component(g, T, seen \cup more)

Components(g, T) ==
  { Component(g, T, {a}) : a \in DOMAIN g.Nodes }

RECURSIVE TotalWeight(_, _)
TotalWeight(g, T) ==
  IF T = {} THEN 0
  ELSE LET i == CHOOSE x \in T : TRUE
       IN g.Edges[i].Weight + TotalWeight(g, T \ {i})

NoSelfLoops(g) ==
  \A i \in DOMAIN g.Edges : g.Edges[i].From # g.Edges[i].To

\* T spans g: it joins every pair of nodes that all the edges of g join.
Spans(g, T) ==
  Components(g, T) = Components(g, DOMAIN g.Edges)

\* C9: on a graph whose edges all join distinct existing nodes, MST returns
\* distinct edges of the graph that form an acyclic set, join every pair of
\* nodes the whole graph joins (|Nodes| - 1 edges when the graph is
\* connected), and weigh no more than any other spanning subset of the edges.
C9_MSTIsMinimumSpanningForest ==
  (qret.op = "MST" /\ NoSelfLoops(graph)) =>
    LET T == { qret.value[i] : i \in DOMAIN qret.value }
        n == Cardinality(DOMAIN graph.Nodes)
    IN /\ T \subseteq DOMAIN graph.Edges
       /\ Cardinality(T) = Len(qret.value)
       /\ Cardinality(T) = n - Cardinality(Components(graph, T))
       /\ Spans(graph, T)
       /\ (n > 0 /\ Cardinality(Components(graph, DOMAIN graph.Edges)) = 1)
            => Len(qret.value) = n - 1
       /\ \A U \in SUBSET DOMAIN graph.Edges :
            Spans(graph, U) => TotalWeight(graph, T) <= TotalWeight(graph, U)

\* MST has run on a triangle whose heaviest edge was added first.
C9_Witness ==
  /\ qret.op = "MST"
  /\ NoSelfLoops(graph)
  /\ Cardinality(DOMAIN graph.Nodes) = 3
  /\ Len(graph.Edges) = 3
  /\ Cardinality(Components(graph, DOMAIN graph.Edges)) = 1
  /\ Cardinality({ <<graph.Edges[i].From, graph.Edges[i].To>> : i \in DOMAIN graph.Edges }) = 3
  /\ graph.Edges[1].Weight > graph.Edges[3].Weight
  /\ Len(qret.value) = 2

\* C10: IsConnected(start) returns true exactly when FindUnreachable(start)
\* returns an empty list, for every graph and every start id.
C10_IsConnectedIffNoneUnreachable ==
  qret.op = "IsConnected" =>
    \A order \in MapOrders(graph) :
      qret.value <=> (FindUnreachable(graph, qret.start, order) = << >>)

(***************************************************************************)
(* SpecGrid: any sequence of calls of Set and the drawing primitives       *)
(***************************************************************************)

MaxGridCalls ==
  2

\* Width and height of the grids drawn on.
GridSizes ==
  { << 3, 2 >>, << 2, 3 >> }

\* The tile and walkability a grid is constructed with.
GridDefaults ==
  { << "^", TRUE >>, << "~", FALSE >> }

\* The tile and walkability a call draws.
TilePairs ==
  { << "~", FALSE >>, << "+", TRUE >> }

\* The tile and walkability a FloodFill draws: those of the other calls, and
\* the default glyph with the other walkability.
FloodPairs ==
  TilePairs \cup { << "^", FALSE >>, << "~", TRUE >> }

\* Every cell of the grid and the ring of cells just outside it.
ProbePoints(g) ==
  { Point(x, y) : x \in (-1)..g.Width, y \in (-1)..g.Height }

\* The whole grid, a rectangle across its lower right corner, one outside it.
ProbeBounds(g) ==
  { Bounds(0, 0, g.Width - 1, g.Height - 1),
    Bounds(1, 1, g.Width, g.Height),
    Bounds(g.Width, 0, g.Width + 1, 1) }

ProbeLines(g) ==
  { << Point(0, 0), Point(g.Width - 1, g.Height - 1) >>,
    << Point(g.Width, 0), Point(-1, g.Height) >>,
    << Point(1, 1), Point(1, 1) >> }

InitGrid ==
  /\ \E size \in GridSizes, d \in GridDefaults :
       /\ grid = NewGrid(size[1], size[2], d[1], d[2])
       /\ gop = [n |-> 0, op |-> "NewGrid", width |-> size[1], height |-> size[2]]
  /\ rng = NewRNG(12345)
  /\ GraphIdle
  /\ GenIdle
  /\ RestIdle

GSet ==
  /\ gop.n < MaxGridCalls
  /\ \E p \in ProbePoints(grid), t \in TilePairs :
       /\ grid' = Set(grid, p, t[1], t[2])
       /\ gop' = [n |-> gop.n + 1, op |-> "Set", p |-> p, tile |-> t[1],
                  walkable |-> t[2], before |-> grid]
  /\ UNCHANGED << rng, graphVars, genVars, restVars >>

GRect ==
  /\ gop.n < MaxGridCalls
  /\ \E b \in ProbeBounds(grid), t \in TilePairs :
       /\ grid' = Rect(grid, b, t[1], t[2])
       /\ gop' = [n |-> gop.n + 1, op |-> "Rect", b |-> b, before |-> grid]
  /\ UNCHANGED << rng, graphVars, genVars, restVars >>

GRectOutline ==
  /\ gop.n < MaxGridCalls
  /\ \E b \in ProbeBounds(grid), t \in TilePairs :
       /\ grid' = RectOutline(grid, b, t[1], t[2])
       /\ gop' = [n |-> gop.n + 1, op |-> "RectOutline", b |-> b, before |-> grid]
  /\ UNCHANGED << rng, graphVars, genVars, restVars >>

GLine ==
  /\ gop.n < MaxGridCalls
  /\ \E l \in ProbeLines(grid), t \in TilePairs :
       /\ grid' = Line(grid, l[1], l[2], t[1], t[2])
       /\ gop' = [n |-> gop.n + 1, op |-> "Line", from |-> l[1], to |-> l[2], before |-> grid]
  /\ UNCHANGED << rng, graphVars, genVars, restVars >>

GFloodFill ==
  /\ gop.n < MaxGridCalls
  /\ \E start \in { Point(0, 0), Point(grid.Width - 1, grid.Height - 1), Point(-1, 0) },
        t \in FloodPairs :
       /\ grid' = FloodFill(grid, start, t[1], t[2])
       /\ gop' = [n |-> gop.n + 1, op |-> "FloodFill", p |-> start, tile |-> t[1],
                  walkable |-> t[2], before |-> grid]
  /\ UNCHANGED << rng, graphVars, genVars, restVars >>

GScatter ==
  /\ gop.n < MaxGridCalls
  /\ \E b \in ProbeBounds(grid), avoid \in { {}, { Point(0, 0), Point(1, 1) } } :
       LET st == Scatter(grid, b, "T", FALSE, 500, rng, avoid)
       IN /\ grid' = st.g
          /\ rng' = st.rng
          /\ gop' = [n |-> gop.n + 1, op |-> "Scatter", b |-> b, before |-> grid]
  /\ UNCHANGED << graphVars, genVars, restVars >>

GScatterOnTile ==
  /\ gop.n < MaxGridCalls
  /\ \E b \in ProbeBounds(grid), target \in { "^", "~" } :
       LET st == ScatterOnTile(grid, b, target, ";", FALSE, 500, rng)
       IN /\ grid' = st.g
          /\ rng' = st.rng
          /\ gop' = [n |-> gop.n + 1, op |-> "ScatterOnTile", b |-> b, before |-> grid]
  /\ UNCHANGED << graphVars, genVars, restVars >>

NextGrid ==
  GSet \/ GRect \/ GRectOutline \/ GLine \/ GFloodFill \/ GScatter \/ GScatterOnTile

SpecGrid ==
  InitGrid /\ [][NextGrid]_vars

\* Tiles and Walkable are Height rows of Width cells.
HasShape(g, width, height) ==
  /\ g.Width = width /\ g.Height = height
  /\ DOMAIN g.Tiles = 0..(height - 1)
  /\ DOMAIN g.Walkable = 0..(height - 1)
  /\ \A y \in 0..(height - 1) :
       DOMAIN g.Tiles[y] = 0..(width - 1) /\ DOMAIN g.Walkable[y] = 0..(width - 1)

Cells(g) ==
  { Point(x, y) : x \in 0..(g.Width - 1), y \in 0..(g.Height - 1) }

\* C6: Set(p, tile, walkable) with p inside the grid changes exactly Tiles[p]
\* and Walkable[p]; with p outside it changes nothing; and after any sequence
\* of Set, Rect, RectOutline, Line, FloodFill, Scatter and ScatterOnTile calls
\* Tiles and Walkable keep the Height x Width shape of construction.
C6_SetFrameAndShape ==
  /\ gop.op # "none" =>
       \E size \in GridSizes : HasShape(grid, size[1], size[2])
  /\ gop.op \notin { "none", "NewGrid" } =>
       HasShape(grid, gop.before.Width, gop.before.Height)
  /\ gop.op = "Set" =>
       IF InBounds(gop.before, gop.p)
         THEN /\ grid.Tiles[gop.p.Y][gop.p.X] = gop.tile
              /\ grid.Walkable[gop.p.Y][gop.p.X] = gop.walkable
              /\ \A q \in Cells(grid) \ {gop.p} :
                   /\ grid.Tiles[q.Y][q.X] = gop.before.Tiles[q.Y][q.X]
                   /\ grid.Walkable[q.Y][q.X] = gop.before.Walkable[q.Y][q.X]
         ELSE grid = gop.before

\* A Set inside the grid that changed a cell of a grid already drawn on.
C6_Witness ==
  /\ gop.op = "Set" /\ gop.n = 2
  /\ InBounds(gop.before, gop.p)
  /\ grid # gop.before
  /\ \A size \in GridSizes, d \in GridDefaults :
       gop.before # NewGrid(size[1], size[2], d[1], d[2])

(***************************************************************************)
(* SpecComp: components of the catalogue rendered onto a chunk-sized grid   *)
(***************************************************************************)

MaxRenders ==
  1

ProbeZone ==
  << Zone("Probe", "a probe zone", NoBounds, "probe", 1) >>

Directions ==
  { North, East, South, West }

\* The components rendered: every variant, with doors on every side, in the
\* middle of the grid and against its border.
ProbeComponents ==
  { NewBuilding(b, style, d, ProbeZone) :
      b \in { Bounds(21, 23, 29, 27), Bounds(0, 0, 6, 4), Bounds(40, 44, 49, 49) },
      style \in { "stone", "white", "wood" }, d \in Directions }
  \cup { NewCabin(b, d, ProbeZone) :
           b \in { Bounds(21, 23, 29, 27), Bounds(46, 0, 49, 3) }, d \in Directions }
  \cup { NewTower(c, r, d, ProbeZone) :
           c \in { Point(25, 25), Point(3, 46) }, r \in { 2, 3, 4 }, d \in Directions }
  \cup { NewCourtyard(Bounds(19, 19, 31, 31), style, es, ProbeZone) :
           style \in { "stone", "white" },
           es \in { << South >>, << North, East >>, << West, West >>, << >> } }
  \cup { NewShrine(c, size, ProbeZone) : c \in { Point(25, 25), Point(0, 49) }, size \in { 0, 1, 2 } }
  \cup { NewMountainRange(Bounds(3, 3, 25, 12), ps, 2) :
           ps \in { << Point(15, 10) >>, << Point(15, 10), Point(4, 3) >>, << Point(30, 30) >> } }
  \cup { NewShoreline(d, 3, 2, ChunkSize) : d \in Directions }
  \cup { NewDock(Point(42, 25), d, 5, 3, NilZone) : d \in Directions }
  \cup { NewPlaza(Point(25, 25), 3, shape) : shape \in { "square", "circle" } }
  \cup { NewPond(c, 3) : c \in { Point(12, 40), Point(0, 0) } }
  \cup { NewClearing(Point(10, 10), 3),
         NewBridge(Point(5, 5), Point(12, 8)),
         NewBridge(Point(12, 8), Point(12, 2)),
         NewScatterDecor(Bounds(30, 30, 35, 35), "T", 500),
         NewBorder(Bounds(10, 30, 14, 34), "@", TRUE),
         NewSignpost(Point(25, 4), North, "", "A path leads onward...", 2),
         NewGrove(Bounds(5, 5, 12, 12), 350, ""),
         NewGarden(Bounds(8, 38, 15, 45)),
         NewRuins(Bounds(38, 5, 44, 10), 400) }

InitComp ==
  /\ grid = NewGrid(ChunkSize, ChunkSize, "^", TRUE)
  /\ gop = [n |-> 0, op |-> "NewGrid"]
  /\ rng = NewRNG(12345)
  /\ GraphIdle
  /\ GenIdle
  /\ RestIdle

\* Render the component and ask it for its bounds and anchors.
RenderComponent ==
  /\ gop.n < MaxRenders
  /\ \E c \in ProbeComponents :
       LET st == Render(grid, DefaultPalette, c, rng)
       IN /\ grid' = st.g
          /\ rng' = st.rng
          /\ gop' = [n |-> gop.n + 1, op |-> "Render", comp |-> c,
                     bounds |-> GetBounds(c), anchors |-> GetAnchors(c)]
  /\ UNCHANGED << graphVars, genVars, restVars >>

NextComp ==
  RenderComponent

SpecComp ==
  InitComp /\ [][NextComp]_vars

\* The entrance direction behind the i-th anchor of a component with doors or gates.
EntranceOf(c, i) ==
  IF c.kind = "courtyard" THEN c.entrances[i] ELSE c.entranceDir

\* p is on the side d of the bounds b.
OnSide(b, p, d) ==
  /\ Contains(b, p)
  /\ CASE d = North -> p.Y = b.MinY
       [] d = South -> p.Y = b.MaxY
       [] d = East -> p.X = b.MaxX
       [] d = West -> p.X = b.MinX

PaintedWalkable(g, p, tile) ==
  InBounds(g, p) => (g.Tiles[p.Y][p.X] = tile /\ g.Walkable[p.Y][p.X])

\* C7 as the specification states it: every anchor of a component with an
\* entry point is on the tile Render paints walkable as that entry point
\* (door, gate or pass) and faces the opposite of the entrance direction.
C7_AnchorOnEntryTile ==
  (gop.op = "Render" /\ gop.comp.kind \in { "building", "cabin", "tower", "courtyard", "mountain" }) =>
    \A i \in DOMAIN gop.anchors :
      LET a == gop.anchors[i]
      IN IF gop.comp.kind = "mountain"
           THEN Contains(gop.bounds, a.Position) =>
                  PaintedWalkable(grid, a.Position, DefaultPalette.Path)
           ELSE /\ OnSide(gop.bounds, a.Position, EntranceOf(gop.comp, i))
                /\ PaintedWalkable(grid, a.Position, DefaultPalette.Door)
                /\ a.Direction = Opposite(EntranceOf(gop.comp, i))

\* C7, amended: an anchor of a Building, Cabin, Tower or Courtyard is one tile
\* outside the door or gate that Render paints walkable on the entrance side
\* (door + delta of the entrance direction) and faces the opposite of the
\* entrance direction; the anchor of a Shrine is one tile south of the
\* midpoint of its walkable south border and faces North; an anchor of a
\* MountainRange is its pass, painted walkable where it lies in the range,
\* and faces South.
C7_AnchorOutsideEntry ==
  gop.op = "Render" =>
    \A i \in DOMAIN gop.anchors :
      LET a == gop.anchors[i]
          c == gop.comp
      IN CASE c.kind \in { "building", "cabin", "tower", "courtyard" } ->
                LET e == EntranceOf(c, i)
                    door == Add(a.Position, -Delta(e)[1], -Delta(e)[2])
                IN /\ OnSide(gop.bounds, door, e)
                   /\ ~Contains(gop.bounds, a.Position)
                   /\ PaintedWalkable(grid, door, DefaultPalette.Door)
                   /\ a.Direction = Opposite(e)
           [] c.kind = "shrine" ->
                LET entry == Add(a.Position, 0, -1)
                IN /\ OnSide(gop.bounds, entry, South)
                   /\ entry.X = c.center.X
                   /\ InBounds(grid, entry) => grid.Walkable[entry.Y][entry.X]
                   /\ a.Direction = North
           [] c.kind = "mountain" ->
                /\ a.Position = c.passes[i]
                /\ Contains(gop.bounds, a.Position) =>
                     PaintedWalkable(grid, a.Position, DefaultPalette.Path)
                /\ a.Direction = South
           [] OTHER -> TRUE

\* A building with its door on the east wall has been rendered; the door and
\* the anchor beside it are both cells of the grid.
C7_Witness ==
  /\ gop.op = "Render"
  /\ gop.comp.kind = "building" /\ gop.comp.entranceDir = East
  /\ Len(gop.anchors) = 1
  /\ InBounds(grid, gop.anchors[1].Position)
  /\ grid.Tiles[gop.anchors[1].Position.Y][gop.anchors[1].Position.X - 1] = DefaultPalette.Door

(***************************************************************************)
(* SpecPath: FindPath and FindPathAvoid on grids with blocked cells         *)
(***************************************************************************)

PathWidth ==
  5

PathHeight ==
  6

\* The cells that may be blocked, and the ends of the paths asked for.
BlockCandidates ==
  { Point(0, 0), Point(2, 4), Point(3, 3), Point(3, 4), Point(2, 5), Point(4, 5), Point(1, 2) }

PathStarts ==
  { Point(1, 0), Point(0, 0), Point(4, 5), Point(-1, 2) }

PathGoals ==
  { Point(3, 5), Point(2, 2), Point(1, 0) }

PathSets ==
  { {}, { Point(3, 4), Point(1, 1) } }

\* The grid after Set(p, "#", false) for every p of blocked.
Blocked(g, blocked) ==
  LET F(x, y) == IF Point(x, y) \in blocked THEN << "#", FALSE >> ELSE << >>
  IN PaintEach(g, Bounds(0, 0, g.Width - 1, g.Height - 1), F)

InitPath ==
  /\ grid \in { Blocked(NewGrid(PathWidth, PathHeight, "^", TRUE), blocked) :
                  blocked \in SUBSET BlockCandidates }
  /\ gop = [n |-> 0, op |-> "NewGrid"]
  /\ rng = NewRNG(0)
  /\ GraphIdle
  /\ GenIdle
  /\ RestIdle

PFindPath ==
  /\ gop.n = 0
  /\ \E from \in PathStarts, to \in PathGoals, walkableOverride \in PathSets :
       gop' = [n |-> 1, op |-> "FindPath", from |-> from, to |-> to, set |-> walkableOverride,
               path |-> FindPath(grid, from, to, walkableOverride)]
  /\ UNCHANGED << grid, rng, graphVars, genVars, restVars >>

PFindPathAvoid ==
  /\ gop.n = 0
  /\ \E from \in PathStarts, to \in PathGoals, avoid \in PathSets :
       gop' = [n |-> 1, op |-> "FindPathAvoid", from |-> from, to |-> to, set |-> avoid,
               path |-> FindPathAvoid(grid, from, to, avoid)]
  /\ UNCHANGED << grid, rng, graphVars, genVars, restVars >>

NextPath ==
  \/ PFindPath
  \/ PFindPathAvoid

SpecPath ==
  InitPath /\ [][NextPath]_vars

\* The cells one step from a cell of s that a route to the goal may enter.
StepFrom(g, s, to) ==
  { q \in UNION { { AdjacentPts(p)[i] : i \in 1..4 } : p \in s } :
      InBounds(g, q) /\ (IsWalkable(g, q) \/ q = to) }

\* The least number of steps of a 4-connected route from the cells of frontier
\* (k steps from the start) to the goal, -1 when there is none.
RECURSIVE routeSteps(_, _, _, _, _)
routeSteps(g, to, seen, frontier, k) ==
  IF to \in frontier THEN k
  ELSE LET next == StepFrom(g, frontier, to) \ seen
       IN IF next = {} THEN -1 ELSE routeSteps(g, to, seen \cup next, next, k + 1)

ShortestRoute(g, a, b) ==
  routeSteps(g, b, { a }, { a }, 0)

\* C2: for in-bounds a and b, FindPath(a, b, nil) returns nil exactly when no
\* 4-connected route from a to b through walkable cells exists (the goal
\* counted as walkable), and otherwise a path whose number of steps is the
\* least number of steps of such a route.
C2_FindPathNilOrShortest ==
  (gop.op = "FindPath" /\ gop.set = {} /\ InBounds(grid, gop.from) /\ InBounds(grid, gop.to)) =>
    LET least == ShortestRoute(grid, gop.from, gop.to)
    IN /\ (gop.path = NoPath) <=> (least = -1)
       /\ gop.path # NoPath => Len(gop.path) - 1 = least

(***************************************************************************)
(* SpecGen: Generate, stage by stage, run again on the same configuration   *)
(***************************************************************************)

MaxRuns ==
  2

Project(id, structure, size) ==
  [ProjectID |-> id, Name |-> id, Description |-> "", Structure |-> structure, Size |-> size]

ChunkConfig(seed, biome, shorelines, connections, hints, projects) ==
  [Seed |-> seed, Biome |-> biome, Shorelines |-> shorelines, Connections |-> connections,
   SignpostHints |-> hints, Projects |-> projects]

NoHints ==
  << >>

\* The configurations generated.
Configs ==
  { ChunkConfig(12345, "grassland", << >>, << South >>, NoHints, << >>),
    ChunkConfig(42, "grassland", << >>, << South, East, West >>, (South :> "To the harbour"),
                << Project("p0", "shrine", 2) >>),
    ChunkConfig(777, "grassland", << >>, << North, South >>, NoHints,
                << Project("p0", "tower", 1), Project("p1", "tower", 1),
                   Project("p2", "courtyard", 3) >>),
    ChunkConfig(7, "coastal", << East >>, << West >>, NoHints,
                << Project("p0", "building", 1), Project("p1", "cabin", 2) >>),
    ChunkConfig(8, "coastal", << North >>, << North, South >>, NoHints,
                << Project("p0", "building", 1) >>),
    ChunkConfig(9, "mountain", << >>, << South, East >>, NoHints,
                << Project("p0", "cabin", 1), Project("p1", "tower", 2) >>),
    ChunkConfig(10, "forest", << >>, << East, West >>, NoHints,
                << Project("p0", "cabin", 1), Project("p1", "shrine", 1),
                   Project("p2", "cabin", 2), Project("p3", "shrine", 3) >>),
    ChunkConfig(11, "urban", << >>, << North, East, South, West >>, NoHints,
                << Project("p0", "building", 2), Project("p1", "courtyard", 1) >>),
    ChunkConfig(12, "castle", << West >>, << South >>, NoHints, << Project("p0", "tower", 3) >>),
    ChunkConfig(13, "grassland", << >>, << >>, NoHints, << Project("p0", "shrine", 1) >>),
    ChunkConfig(14, "", << >>, << North, North >>, NoHints,
                << Project("p0", "hall", 1), Project("p0", "shrine", 1) >>),
    ChunkConfig(15, "grassland", << >>, << >>, NoHints, << >>),
    ChunkConfig(12345, "grassland", << >>, << South, East, West >>,
                (South :> "Castle spires glimmer in the distance."
                   @@ East :> "The smell of salt and sea beckons."
                   @@ West :> "Shadows dance between ancient trees."),
                << Project("portfolio", "shrine", 2) >>),
    ChunkConfig(16, "swamp", << >>, << South, West >>, NoHints, << Project("p0", "cabin", 1) >>),
    ChunkConfig(20, "grassland", << >>, << South, North >>, NoHints,
                << Project("a", "shrine", 1), Project("b", "courtyard", 3) >>),
    ChunkConfig(21, "coastal", << East >>, << East >>, NoHints, << >>),
    ChunkConfig(22, "grassland", << South, West >>, << West >>, NoHints, << >>),
    ChunkConfig(23, "forest", << West >>, << East, West >>, NoHints,
                << Project("p0", "cabin", 1) >>),
    ChunkConfig(4, "grassland", << >>, << South >>, NoHints,
                << Project("a", "shrine", 1), Project("b", "shrine", 1),
                   Project("c", "shrine", 2), Project("d", "shrine", 1) >>),
    ChunkConfig(30, "grassland", << >>, << South >>, NoHints,
                << Project("a", "courtyard", 3), Project("b", "courtyard", 3) >>),
    ChunkConfig(5, "grassland", << >>, << South >>, NoHints,
                << Project("p0", "shrine", 1), Project("p1", "shrine", 1),
                   Project("p2", "shrine", 1), Project("p3", "shrine", 1),
                   Project("p4", "shrine", 1) >>) }

InitGen ==
  /\ cg \in { NewChunkGenerator(config) : config \in Configs }
  /\ pc = "initGrid"
  /\ outcome = NoOutcome
  /\ stages = << >>
  /\ run = 1
  /\ first = NoOutcome
  /\ GraphIdle
  /\ GridIdle
  /\ RestIdle

\* A stage of Generate that returns no error.
Stage(name, next) ==
  /\ pc = name
  /\ cg' = next
  /\ pc' = stageAfter(name)
  /\ stages' = Append(stages, name)
  /\ UNCHANGED << outcome, run, first, graphVars, gridVars, restVars >>

\* A stage of Generate that may return an error: Generate returns it wrapped.
FailingStage(name, next, err) ==
  /\ pc = name
  /\ cg' = next
  /\ stages' = Append(stages, name)
  /\ IF err = NoError
       THEN pc' = stageAfter(name) /\ outcome' = outcome
       ELSE pc' = "done" /\ outcome' = [def |-> << >>, err |-> err]
  /\ UNCHANGED << run, first, graphVars, gridVars, restVars >>

GInitGrid ==
  Stage("initGrid", initGrid(cg))

GBuildGraph ==
  Stage("buildGraph", buildGraph(cg))

GPlaceTerrain ==
  Stage("placeTerrain", placeTerrain(cg))

GPlaceProjects ==
  FailingStage("placeProjects", placeProjects(cg), NoError)

GPlaceHub ==
  Stage("placeHub", placeHub(cg))

GPlaceSignposts ==
  Stage("placeSignposts", placeSignposts(cg))

GRenderComponents ==
  Stage("renderComponents", renderComponents(cg))

GRoutePaths ==
  /\ pc = "routePaths"
  /\ LET routed == routePaths(cg)
     IN FailingStage("routePaths", routed.cg, routed.err)

GPlaceTerrainFeatures ==
  Stage("placeTerrainFeatures", placeTerrainFeatures(cg))

GRenderTerrainFeatures ==
  Stage("renderTerrainFeatures", renderTerrainFeatures(cg))

GAddDecoration ==
  Stage("addDecoration", addDecoration(cg))

\* The orders in which GetEdgePorts can return the ports.
EdgePortOrders(g) ==
  Perms({ id \in DOMAIN g.Nodes : g.Nodes[id].Type = NodeEdgePort })

GValidate ==
  /\ pc = "validate"
  /\ \E ports \in EdgePortOrders(cg.graph) :
       \E order \in IF Len(ports) = 0 \/ IsConnected(cg.graph, ports[1])
                      THEN { << >> } ELSE MapOrders(cg.graph) :
         FailingStage("validate", cg, validate(cg, ports, order))

GBuildOutput ==
  /\ pc = "buildOutput"
  /\ outcome' = [def |-> << buildOutput(cg) >>, err |-> NoError]
  /\ pc' = stageAfter("buildOutput")
  /\ stages' = Append(stages, "buildOutput")
  /\ UNCHANGED << cg, run, first, graphVars, gridVars, restVars >>

\* A second generator for the same configuration.
GGenerateAgain ==
  /\ pc = "done"
  /\ run < MaxRuns
  /\ cg' = NewChunkGenerator(cg.config)
  /\ pc' = "initGrid"
  /\ outcome' = NoOutcome
  /\ stages' = << >>
  /\ run' = run + 1
  /\ first' = IF run = 1 THEN outcome ELSE first
  /\ UNCHANGED << graphVars, gridVars, restVars >>

NextGen ==
  \/ GInitGrid
  \/ GBuildGraph
  \/ GPlaceTerrain
  \/ GPlaceProjects
  \/ GPlaceHub
  \/ GPlaceSignposts
  \/ GRenderComponents
  \/ GRoutePaths
  \/ GPlaceTerrainFeatures
  \/ GRenderTerrainFeatures
  \/ GAddDecoration
  \/ GValidate
  \/ GBuildOutput
  \/ GGenerateAgain

SpecGen ==
  InitGen /\ [][NextGen]_vars

\* The stage named has run in this run of Generate.
HasRun(name) ==
  \E i \in DOMAIN stages : stages[i] = name

PortNodes(g) ==
  { id \in DOMAIN g.Nodes : g.Nodes[id].Type = NodeEdgePort }

ProjectNodes(g) ==
  { id \in DOMAIN g.Nodes : g.Nodes[id].Zone # NilZone /\ g.Nodes[id].Zone[1].ProjectID # "" }

\* C1: two runs of Generate on the same configuration return the same outcome,
\* the same tiles and zones or the same error with the same zone name, port id
\* and unreachable nodes, whatever order the node map is ranged over.
C1_SameOutcomeOnRerun ==
  (run >= 2 /\ pc = "done") => outcome = first

\* The cells joined to p by a 4-connected path of walkable cells.
WalkableRegion(g, p) ==
  IF IsWalkable(g, p) THEN spreadAll(g, { p }) ELSE {}

\* C3: when Generate returns a ChunkDefinition, every zone with a project id is
\* joined to every edge port by walkable tiles: a 4-connected walkable path
\* leads from the port's position to an anchor of the zone's component or to
\* the centre of the zone's bounds.
C3_ProjectZonesReachable ==
  (pc = "done" /\ outcome.def # << >>) =>
    \A q \in PortNodes(cg.graph) :
      LET region == WalkableRegion(cg.grid, cg.graph.Nodes[q].Position)
      IN \A z \in DOMAIN cg.zones :
           cg.zones[z].ProjectID # "" =>
             \/ \E i \in DOMAIN cg.components :
                  /\ GetZone(cg.components[i]) # NilZone
                  /\ GetZone(cg.components[i])[1].Ref = cg.zones[z].Ref
                  /\ \E k \in DOMAIN GetAnchors(cg.components[i]) :
                       GetAnchors(cg.components[i])[k].Position \in region
             \/ Center(cg.zones[z].Bounds) \in region

\* Generate returned a chunk with two project zones and two edge ports.
C3_Witness ==
  /\ pc = "done" /\ outcome.def # << >>
  /\ Cardinality(PortNodes(cg.graph)) >= 2
  /\ Cardinality({ z \in DOMAIN cg.zones : cg.zones[z].ProjectID # "" }) >= 2

\* C5: once placeHub has run on a configuration with a project and a
\* connection, the graph has the node hub, an edge between hub and every
\* project node and an edge between hub and every edge port.
C5_HubJoinsProjectsAndPorts ==
  (HasRun("placeHub") /\ Len(cg.config.Projects) >= 1 /\ Len(cg.config.Connections) >= 1) =>
    /\ "hub" \in DOMAIN cg.graph.Nodes
    /\ \A id \in ProjectNodes(cg.graph) \cup PortNodes(cg.graph) :
         \E i \in DOMAIN cg.graph.Edges :
           { cg.graph.Edges[i].From, cg.graph.Edges[i].To } = { "hub", id }

\* placeHub has just run on a graph with two project nodes and two edge ports.
C5_Witness ==
  /\ pc = "placeSignposts"
  /\ Cardinality(ProjectNodes(cg.graph)) >= 2
  /\ Cardinality(PortNodes(cg.graph)) >= 2

\* The order of the stages as the specification gives it; terrain features
\* are placed and then rendered.
GenerateOrder ==
  << "initGrid", "buildGraph", "placeTerrain", "placeProjects", "placeHub", "placeSignposts",
     "renderComponents", "routePaths", "placeTerrainFeatures", "renderTerrainFeatures",
     "addDecoration", "validate", "buildOutput" >>

IsPrefix(s, t) ==
  Len(s) <= Len(t) /\ \A i \in DOMAIN s : s[i] = t[i]

\* C8: the stages of Generate run in the strict order of GenerateOrder: no
\* edge is routed and no terrain feature exists before the structural
\* components are rendered, terrain features and decoration come after
\* routing, validation after decoration; a failing stage is the last to run
\* and no ChunkDefinition is returned; a ChunkDefinition is returned only
\* after every stage has run.
C8_StrictStageOrder ==
  /\ IsPrefix(stages, GenerateOrder)
  /\ ~HasRun("renderComponents") =>
       \A i \in DOMAIN cg.graph.Edges : cg.graph.Edges[i].Path = NoPath
  /\ ~HasRun("routePaths") => cg.terrainFeatures = << >>
  /\ (pc = "done") <=> (outcome # NoOutcome)
  /\ outcome.def # << >> => (stages = GenerateOrder /\ outcome.err = NoError)
  /\ outcome.err # NoError =>
       /\ outcome.def = << >>
       /\ stages[Len(stages)] \in { "placeProjects", "routePaths", "validate" }

\* Routing failed, after the structural components were rendered: no later
\* stage has run.
C8_Witness ==
  /\ pc = "done"
  /\ outcome.err.stage = "routing paths"
  /\ stages = SubSeq(GenerateOrder, 1, 8)

\* An anchor of the component of zone z of the generator c, or the centre of
\* the bounds of z, is in the region.
ZoneInRegion(c, z, region) ==
  \/ \E i \in DOMAIN c.components :
       /\ GetZone(c.components[i]) # NilZone
       /\ GetZone(c.components[i])[1].Ref = c.zones[z].Ref
       /\ \E k \in DOMAIN GetAnchors(c.components[i]) :
            GetAnchors(c.components[i])[k].Position \in region
  \/ Center(c.zones[z].Bounds) \in region

\* C11: validation returns the error "zone not reachable from port" only when
\* a zone with a project id has, for some edge port, neither an anchor of its
\* component nor the centre of its bounds in the walkable region of the port;
\* a signpost zone never makes validation fail, so a configuration without
\* projects never gets this error.
C11_OnlyProjectZonesFailValidation ==
  (pc = "done" /\ outcome.err.stage = "validation failed"
     /\ outcome.err.msg = "zone not reachable from port") =>
    \E z \in DOMAIN cg.zones :
      /\ cg.zones[z].ProjectID # ""
      /\ \E q \in PortNodes(cg.graph) :
           ~ZoneInRegion(cg, z, WalkableRegion(cg.grid, cg.graph.Nodes[q].Position))

(***************************************************************************)
(* SpecWorld: concurrent requests calling WorldService.GetChunk            *)
(***************************************************************************)

MaxRequests ==
  2

\* The coordinates of the chunks in world.json and the coordinates requested.
WorldCoords ==
  { << 0, 0 >>, << -1, 0 >> }

RequestCoords ==
  WorldCoords \cup { << 5, 5 >> }

\* fmt.Sprintf("%d,%d", x, y)
ChunkKey(x, y) ==
  ToString(x) \o "," \o ToString(y)

\* The file of a chunk reference, as the generator names it.
ChunkFileName(x, y) ==
  "chunks/" \o ToString(x) \o "_" \o ToString(y) \o ".json"

\* The chunk files are not changed while the service runs.  The driver skips
\* a chunk whose generation or write fails, so a file of the manifest can be
\* missing, and what is there need not be JSON.
DiskStates ==
  { "readable", "missing", "not JSON" }

\* A chunk parsed from a file is told apart by its tiles.
ParseChunkFile(file) ==
  [Tiles |-> << << file >> >>, Zones |-> << >>]

\* A map with the entry key -> value added or overwritten.
MapSet(m, key, value) ==
  [k \in DOMAIN m \cup { key } |-> IF k = key THEN value ELSE m[k]]

\* world.json, as loadWorld parses it.
loadWorld ==
  [Chunks |-> [key \in { ChunkKey(c[1], c[2]) : c \in WorldCoords } |->
                 LET c == CHOOSE d \in WorldCoords : ChunkKey(d[1], d[2]) = key
                 IN [File |-> ChunkFileName(c[1], c[2]), Name |-> key]]]

NewWorldService ==
  [world |-> loadWorld, chunks |-> << >>]

ChunkResponse(x, y, chunk) ==
  [X |-> x, Y |-> y, Tiles |-> chunk.Tiles, Zones |-> chunk.Zones, err |-> ""]

ChunkNotFound ==
  [err |-> "chunk not found"]

\* The error returns of the load.
ReadFailed ==
  [err |-> "failed to read chunk file"]

ParseFailed ==
  [err |-> "failed to parse chunk file"]

\* A GetChunk call: where it is, its arguments and locals, and what it returned.
CallState(at, x, y, key, file) ==
  [pc |-> at, x |-> x, y |-> y, key |-> key, file |-> file, raced |-> FALSE,
   chunk |-> << >>, ret |-> << >>]

NoCallState ==
  CallState("idle", 0, 0, "", "")

\* The other calls that are inside an access to the chunks map.
Reading(r) ==
  { q \in DOMAIN calls : q # r /\ calls[q].pc = "inRead" }

Writing(r) ==
  { q \in DOMAIN calls : q # r /\ calls[q].pc = "inWrite" }

\* The calls in S have raced with another access.
MarkRaced(cs, S) ==
  [q \in DOMAIN cs |-> IF q \in S THEN [cs[q] EXCEPT !.raced = TRUE] ELSE cs[q]]

InitWorld ==
  /\ ws = NewWorldService
  /\ disk \in [{ ws.world.Chunks[key].File : key \in DOMAIN ws.world.Chunks } -> DiskStates]
  /\ calls = [r \in 1..MaxRequests |-> NoCallState]
  /\ fatal = FALSE
  /\ GraphIdle
  /\ GridIdle
  /\ GenIdle
  /\ CliIdle
  /\ SearchIdle

\* A request arrives: GetChunk builds the key and looks it up in the manifest,
\* which no request writes.
WGetChunk(r, x, y) ==
  /\ ~fatal
  /\ calls[r].pc = "idle"
  /\ LET key == ChunkKey(x, y)
     IN calls' = [calls EXCEPT ![r] =
                    IF key \in DOMAIN ws.world.Chunks
                      THEN CallState("checkCache", x, y, key, ws.world.Chunks[key].File)
                      ELSE [CallState("done", x, y, key, "") EXCEPT !.ret = ChunkNotFound]]
  /\ UNCHANGED << ws, disk, fatal, cli, search, graphVars, gridVars, genVars >>

\* chunk, cached := ws.chunks[key] starts reading the map.
WBeginRead(r) ==
  /\ ~fatal
  /\ calls[r].pc = "checkCache"
  /\ calls' = [calls EXCEPT ![r] = [@ EXCEPT !.pc = "inRead", !.raced = Writing(r) # {}]]
  /\ UNCHANGED << ws, disk, fatal, cli, search, graphVars, gridVars, genVars >>

\* The read of the map ends.  A read that overlapped a write of the map is a
\* data race: the runtime may stop the process ("concurrent map read and map
\* write"), or the read goes through.
WEndRead(r) ==
  /\ ~fatal
  /\ calls[r].pc = "inRead"
  /\ \/ /\ calls[r].raced
        /\ fatal' = TRUE
        /\ UNCHANGED calls
     \/ /\ fatal' = fatal
        /\ calls' = [calls EXCEPT ![r] =
                       IF calls[r].key \in DOMAIN ws.chunks
                         THEN [@ EXCEPT !.pc = "done",
                                        !.ret = ChunkResponse(calls[r].x, calls[r].y,
                                                              ws.chunks[calls[r].key])]
                         ELSE [@ EXCEPT !.pc = "load"]]
  /\ UNCHANGED << ws, disk, cli, search, graphVars, gridVars, genVars >>

\* os.ReadFile and json.Unmarshal of the chunk file: GetChunk returns the
\* error of either and caches nothing.
WLoad(r) ==
  /\ ~fatal
  /\ calls[r].pc = "load"
  /\ calls' = [calls EXCEPT ![r] =
                 CASE disk[calls[r].file] = "missing" -> [@ EXCEPT !.pc = "done", !.ret = ReadFailed]
                   [] disk[calls[r].file] = "not JSON" -> [@ EXCEPT !.pc = "done", !.ret = ParseFailed]
                   [] OTHER -> [@ EXCEPT !.pc = "cache", !.chunk = ParseChunkFile(calls[r].file)]]
  /\ UNCHANGED << ws, disk, fatal, cli, search, graphVars, gridVars, genVars >>

\* ws.chunks[key] = chunk starts writing the map: every access in progress
\* now overlaps a write.
WBeginWrite(r) ==
  /\ ~fatal
  /\ calls[r].pc = "cache"
  /\ calls' = MarkRaced([calls EXCEPT ![r] = [@ EXCEPT !.pc = "inWrite",
                                                   !.raced = Reading(r) \cup Writing(r) # {}]],
                        Reading(r) \cup Writing(r))
  /\ UNCHANGED << ws, disk, fatal, cli, search, graphVars, gridVars, genVars >>

\* The write ends and GetChunk returns the response; a write that overlapped
\* another access may have stopped the process ("concurrent map writes").
WEndWrite(r) ==
  /\ ~fatal
  /\ calls[r].pc = "inWrite"
  /\ \/ /\ calls[r].raced
        /\ fatal' = TRUE
        /\ UNCHANGED << ws, calls >>
     \/ /\ fatal' = fatal
        /\ ws' = [ws EXCEPT !.chunks = MapSet(@, calls[r].key, calls[r].chunk)]
        /\ calls' = [calls EXCEPT ![r] =
                       [@ EXCEPT !.pc = "done",
                                 !.ret = ChunkResponse(calls[r].x, calls[r].y, calls[r].chunk)]]
  /\ UNCHANGED << disk, cli, search, graphVars, gridVars, genVars >>

NextWorld ==
  \/ \E r \in 1..MaxRequests : \E c \in RequestCoords : WGetChunk(r, c[1], c[2])
  \/ \E r \in 1..MaxRequests : WBeginRead(r)
  \/ \E r \in 1..MaxRequests : WEndRead(r)
  \/ \E r \in 1..MaxRequests : WLoad(r)
  \/ \E r \in 1..MaxRequests : WBeginWrite(r)
  \/ \E r \in 1..MaxRequests : WEndWrite(r)

SpecWorld ==
  InitWorld /\ [][NextWorld]_vars

\* The keys of the manifest whose chunk file can be read and parsed.
Loadable ==
  { key \in DOMAIN ws.world.Chunks : disk[ws.world.Chunks[key].File] = "readable" }

\* C12: with several requests calling GetChunk concurrently, no request
\* writes the chunks map while another request reads or writes it, the
\* process is not stopped, every request for a key of the manifest (whose
\* file can be loaded) returns the chunk of that key, and once all requests
\* have returned the cache holds exactly the requested keys among these.
C12_GetChunkSafeUnderConcurrency ==
  /\ ~fatal
  /\ \A r \in DOMAIN calls : calls[r].pc = "inWrite" => Reading(r) \cup Writing(r) = {}
  /\ \A r \in DOMAIN calls :
       (calls[r].pc = "done" /\ calls[r].key \in Loadable) =>
         calls[r].ret = ChunkResponse(calls[r].x, calls[r].y,
                                      ParseChunkFile(ws.world.Chunks[calls[r].key].File))
  /\ (\A r \in DOMAIN calls : calls[r].pc = "done") =>
       DOMAIN ws.chunks = { calls[r].key : r \in DOMAIN calls } \cap Loadable

(***************************************************************************)
(* SpecCli: a run of the batch driver, generate <output-dir> [<x> <y>]     *)
(***************************************************************************)

\* ChunkX, ChunkY of the entries of worldConfig, in order.
worldConfig ==
  << << 0, 0 >>, << -1, -1 >>, << -1, 0 >>, << 1, 0 >>, << -1, 1 >>, << 0, 1 >>, << 1, 1 >> >>

\* A command-line argument is the sequence of its characters, so that the
\* path functions can look into it.
OutDir ==
  << "o", "u", "t" >>

\* The command lines tried: os.Args without the program name.  "./data" is the
\* directory the Makefile passes.
CliArgs ==
  { << >>, << OutDir >>, << OutDir, << "0" >>, << "0" >> >>, << OutDir, << "1" >>, << "1" >> >>,
    << OutDir, << "7" >>, << "7" >> >>,
    << << ".", "/", "d", "a", "t", "a" >> >>, << << "o", "u", "t", "/" >> >>,
    << << "/", "t", "m", "p", "/", ".", ".", "/", "w" >> >>, << << >> >> }

\* The string of a sequence of characters.
RECURSIVE StringOf(_)
StringOf(chars) ==
  IF chars = << >> THEN "" ELSE Head(chars) \o StringOf(Tail(chars))

\* The elements of a path between its separators, empty ones included;
\* cur is the element being read.
RECURSIVE pathElements(_, _)
pathElements(chars, cur) ==
  IF chars = << >> THEN << cur >>
  ELSE IF Head(chars) = "/" THEN << cur >> \o pathElements(Tail(chars), "")
  ELSE pathElements(Tail(chars), cur \o Head(chars))

\* filepath.Clean, element by element: empty elements and "." are dropped,
\* ".." removes the element before it, is dropped at the root, and is kept
\* at the start of a relative path.
RECURSIVE cleanElements(_, _, _)
cleanElements(elems, rooted, kept) ==
  IF elems = << >> THEN kept
  ELSE LET e == Head(elems)
           next == IF e = "" \/ e = "." THEN kept
                   ELSE IF e # ".." THEN Append(kept, e)
                   ELSE IF kept # << >> /\ kept[Len(kept)] # ".." THEN SubSeq(kept, 1, Len(kept) - 1)
                   ELSE IF rooted THEN kept
                   ELSE Append(kept, e)
       IN cleanElements(Tail(elems), rooted, next)

RECURSIVE joinElements(_)
joinElements(elems) ==
  IF elems = << >> THEN ""
  ELSE IF Len(elems) = 1 THEN elems[1]
  ELSE elems[1] \o "/" \o joinElements(Tail(elems))

\* filepath.Join(dir, names...) for names that hold no separator: the
\* non-empty elements joined by "/" and cleaned; "." when nothing is left
\* of a relative path, "" when every element is empty.
Join(dir, names) ==
  LET rooted == dir # << >> /\ Head(dir) = "/"
      kept == cleanElements(pathElements(dir, "") \o names, rooted, << >>)
  IN IF dir = << >> /\ SelectSeq(names, LAMBDA n : n # "") = << >> THEN ""
     ELSE IF rooted THEN "/" \o joinElements(kept)
     ELSE IF kept = << >> THEN "."
     ELSE joinElements(kept)

\* filepath.Join(filepath.Join(outputDir, "chunks"), fmt.Sprintf("%d_%d.json", x, y));
\* cleaning twice is cleaning once.
ChunkPath(outputDir, x, y) ==
  Join(outputDir, << "chunks", ToString(x) \o "_" \o ToString(y) \o ".json" >>)

InitCli ==
  /\ cli \in { [pc |-> "main", args |-> args, i |-> 1, written |-> {}, exit |-> -1] :
                 args \in CliArgs }
  /\ GraphIdle
  /\ GridIdle
  /\ GenIdle
  /\ WebIdle
  /\ SearchIdle

\* main up to the loop: the usage check and os.MkdirAll, which may fail.
CMain ==
  /\ cli.pc = "main"
  /\ \/ /\ Len(cli.args) < 1
        /\ cli' = [cli EXCEPT !.pc = "exit", !.exit = 1]
     \/ /\ Len(cli.args) >= 1
        /\ \E mkdirFails \in BOOLEAN :
             cli' = IF mkdirFails THEN [cli EXCEPT !.pc = "exit", !.exit = 1]
                    ELSE [cli EXCEPT !.pc = "loop"]
  /\ UNCHANGED << webVars, search, graphVars, gridVars, genVars >>

\* One turn of for _, config := range worldConfig: the seed of each entry is
\* drawn at start-up, so Generate returns a chunk or an error; os.WriteFile
\* may fail.  Either error is logged and the loop goes on.
CChunk ==
  /\ cli.pc = "loop"
  /\ cli.i <= Len(worldConfig)
  /\ \E generated \in BOOLEAN, wrote \in BOOLEAN :
       cli' = [cli EXCEPT
                 !.i = @ + 1,
                 !.written = IF generated /\ wrote
                               THEN @ \cup { ChunkPath(cli.args[1], worldConfig[cli.i][1],
                                                       worldConfig[cli.i][2]) }
                               ELSE @]
  /\ UNCHANGED << webVars, search, graphVars, gridVars, genVars >>

\* The loop is over: "Done!" and exit status 0.
CDone ==
  /\ cli.pc = "loop"
  /\ cli.i > Len(worldConfig)
  /\ cli' = [cli EXCEPT !.pc = "exit", !.exit = 0]
  /\ UNCHANGED << webVars, search, graphVars, gridVars, genVars >>

NextCli ==
  \/ CMain
  \/ CChunk
  \/ CDone

SpecCli ==
  InitCli /\ [][NextCli]_vars

\* C13: invoked as generate <output-dir> <chunk-x> <chunk-y>, the driver
\* writes no chunk file other than that of the chunk (chunk-x, chunk-y).
C13_OnlyRequestedChunkWritten ==
  Len(cli.args) = 3 =>
    cli.written \subseteq
      { Join(cli.args[1], << "chunks", StringOf(cli.args[2]) \o "_" \o StringOf(cli.args[3])
                                        \o ".json" >>) }

\* The cells of the grid g that hold the tile.
CellsWith(g, tile) ==
  { p \in { Point(x, y) : x \in 0..(g.Width - 1), y \in 0..(g.Height - 1) } :
      g.Tiles[p.Y][p.X] = tile }

\* The generator runs the configuration grassland, connections [South], no
\* projects.
SouthOnlyScenario ==
  /\ pc # "idle"
  /\ cg.config.Biome = "grassland"
  /\ cg.config.Connections = << South >>
  /\ cg.config.Projects = << >>

\* In that scenario: no hub node and no edge, no Path tile, and one signpost,
\* at p, with the 3x3 zone around p and, once rendered, the only Marker tile.
SouthOnlySignpostAt(p) ==
  SouthOnlyScenario =>
    /\ "hub" \notin DOMAIN cg.graph.Nodes
    /\ cg.graph.Edges = << >>
    /\ CellsWith(cg.grid, DefaultPalette.Path) = {}
    /\ HasRun("placeSignposts") =>
         /\ Len(cg.components) = 1
         /\ cg.components[1].kind = "signpost"
         /\ cg.components[1].position = p
         /\ Len(cg.zones) = 1
         /\ cg.zones[1].Bounds = Bounds(p.X - 1, p.Y - 1, p.X + 1, p.Y + 1)
         /\ Center(cg.zones[1].Bounds) = p
    /\ HasRun("renderComponents") =>
         /\ CellsWith(cg.grid, DefaultPalette.Marker) = { p }
         /\ IsWalkable(cg.grid, p)

\* C14 as the specification states it: for grassland, connections [South], no
\* projects, the pipeline creates no hub node and no edge, paints no Path
\* tile, and places one signpost whose Marker tile and 3x3 zone centre are at
\* (25, 46).
C14_SignpostAt46 ==
  SouthOnlySignpostAt(Point(25, 46))

\* C14, amended: the same with the signpost at (25, 45), four tiles inside
\* the south side (ChunkSize - 1 - 4).
C14_SignpostAt45 ==
  SouthOnlySignpostAt(Point(25, 45))

\* The scenario has run up to validation and the marker is on the grid.
C14_Witness ==
  /\ SouthOnlyScenario
  /\ HasRun("addDecoration")
  /\ Get(cg.grid, Point(25, 45)) = DefaultPalette.Marker
  /\ Len(cg.zones) = 1

\* The generator runs the configuration grassland, connections [South, East,
\* West], one shrine "portfolio" of size 2.
ShrineScenario ==
  /\ pc # "idle"
  /\ cg.config.Biome = "grassland"
  /\ cg.config.Connections = << South, East, West >>
  /\ cg.config.Projects = << Project("portfolio", "shrine", 2) >>

\* The cells on the border of the bounds b.
BorderCells(b) ==
  { Point(x, y) : x \in { b.MinX, b.MaxX }, y \in b.MinY..b.MaxY }
    \cup { Point(x, y) : x \in b.MinX..b.MaxX, y \in { b.MinY, b.MaxY } }

\* C15: for grassland, connections [South, East, West] and one shrine of size
\* 2, the emitted tiles hold the shrine at the chunk centre, a Star at
\* (25, 25) inside the Marker outline of the 5x5 square around it, rendering
\* the hub plaza does not erase it, and the graph edges are exactly hub-port_2,
\* hub-port_1, hub-port_3 and hub-project_portfolio.
C15_ShrineAndPlazaBothEmitted ==
  (ShrineScenario /\ pc = "done" /\ outcome.def # << >>) =>
    LET tiles == outcome.def[1].Tiles
    IN /\ tiles[25][25] = DefaultPalette.Star
       /\ \A p \in BorderCells(Bounds(23, 23, 27, 27)) : tiles[p.Y][p.X] = DefaultPalette.Marker
       /\ \E i \in DOMAIN cg.components :
            cg.components[i].kind = "plaza" /\ cg.components[i].center = Point(25, 25)
       /\ { { cg.graph.Edges[i].From, cg.graph.Edges[i].To } : i \in DOMAIN cg.graph.Edges }
            = { { "hub", PortID(South) }, { "hub", PortID(East) }, { "hub", PortID(West) },
                { "hub", ProjectNodeID("portfolio") } }
       /\ Len(cg.graph.Edges) = 4

\* The biome names GetBiome knows.
KnownBiomes ==
  { "grassland", "mountain", "coastal", "forest", "urban", "castle" }

\* C16: Generate on a configuration whose biome name is empty or unknown
\* returns an error and never a ChunkDefinition.
C16_NoBiomeIsAnError ==
  (pc = "done" /\ cg.config.Biome \notin KnownBiomes) =>
    (outcome.def = << >> /\ outcome.err # NoError)

\* The bounds b lie inside the safe bounds of the generator c.
InsideSafeBounds(c, b) ==
  LET safe == safeBounds(c)
  IN /\ b.MinX >= safe.minX /\ b.MaxX <= safe.maxX
     /\ b.MinY >= safe.minY /\ b.MaxY <= safe.maxY

\* C17: Generate returns an error when a project's structure does not fit in
\* the safe bounds, so when it returns a ChunkDefinition the bounds of every
\* project component lie inside the safe bounds.
C17_ProjectsInsideSafeBounds ==
  (pc = "done" /\ outcome.def # << >>) =>
    \A i \in DOMAIN cg.components :
      (GetZone(cg.components[i]) # NilZone /\ GetZone(cg.components[i])[1].ProjectID # "") =>
        InsideSafeBounds(cg, GetBounds(cg.components[i]))

\* The path starts at from, ends at to, and moves by one 4-connected step at
\* a time inside the grid.
IsRoute(g, path, from, to) ==
  /\ Len(path) >= 1
  /\ path[1] = from
  /\ path[Len(path)] = to
  /\ \A i \in DOMAIN path : InBounds(g, path[i])
  /\ \A i \in 1..(Len(path) - 1) : manhattanDist(path[i], path[i + 1]) = 1

\* The cells of the path from index lo on, the goal left out, are walkable on
\* the grid and not in avoid.
ClearFrom(g, path, lo, to, avoid) ==
  \A i \in lo..Len(path) :
    path[i] # to => (IsWalkable(g, path[i]) /\ path[i] \notin avoid)

\* C18 as the specification states it: a path returned by FindPathAvoid
\* starts at from, ends at to, moves by 4-connected steps inside the grid,
\* and each of its cells other than the goal is walkable and not in avoid.
C18_AvoidPathAllCellsClear ==
  (gop.op = "FindPathAvoid" /\ gop.path # NoPath) =>
    /\ IsRoute(grid, gop.path, gop.from, gop.to)
    /\ ClearFrom(grid, gop.path, 1, gop.to, gop.set)

\* C18, amended: the same, for each cell other than the start and the goal;
\* the start is never tested.
C18_AvoidPathInnerCellsClear ==
  (gop.op = "FindPathAvoid" /\ gop.path # NoPath) =>
    /\ IsRoute(grid, gop.path, gop.from, gop.to)
    /\ ClearFrom(grid, gop.path, 2, gop.to, gop.set)

\* FindPathAvoid returned a path of several steps on a grid with blocked
\* cells and a non-empty avoid set.
C18_Witness ==
  /\ gop.op = "FindPathAvoid"
  /\ Len(gop.path) >= 5
  /\ gop.set # {}
  /\ \E p \in BlockCandidates : ~IsWalkable(grid, p)

(***************************************************************************)
(* SpecSearch: FindPath and FindPathAvoid one turn of the loop at a time    *)
(***************************************************************************)

\* The sets of blocked cells, and the ends of the searches.
SearchBlocks ==
  { {},
    { Point(0, 0), Point(2, 4), Point(3, 4) },
    { Point(3, 3) },
    { Point(1, 2), Point(2, 5) } }

SearchStarts ==
  { Point(1, 0), Point(4, 5), Point(-1, 2) }

SearchGoals ==
  { Point(3, 5), Point(2, 2) }

\* No entry has been popped yet.
NoNode ==
  [point |-> NoPoint, fScore |-> NoScore]

Searching ==
  search.op \in { "FindPath", "FindPathAvoid" }

SearchEnv ==
  [g |-> grid, from |-> search.from, to |-> search.to,
   avoiding |-> (search.op = "FindPathAvoid"), set |-> search.set]

\* The call up to the loop.  seq[y][x] is the number of the heap.Push that put
\* the entry of (x, y) in the open set, counted from 1 over the whole call;
\* a point has at most one entry at a time, inOpen guarding the push.
SearchCall(op, from, to, set) ==
  LET env == [g |-> grid, from |-> from, to |-> to,
              avoiding |-> (op = "FindPathAvoid"), set |-> set]
      st == astarStart(env)
  IN [op |-> op, from |-> from, to |-> to, set |-> set, st |-> st,
      seq |-> IF st.done THEN PointMap(grid, 0)
              ELSE [PointMap(grid, 0) EXCEPT ![from.Y][from.X] = 1],
      pushes |-> IF st.done THEN 0 ELSE 1,
      popped |-> NoNode,
      before |-> << >>]

InitSearch ==
  /\ grid \in { Blocked(NewGrid(PathWidth, PathHeight, "^", TRUE), blocked) :
                  blocked \in SearchBlocks }
  /\ gop = [n |-> 0, op |-> "NewGrid"]
  /\ rng = NewRNG(0)
  /\ GraphIdle
  /\ GenIdle
  /\ WebIdle
  /\ CliIdle
  /\ SearchIdle

SFindPath ==
  /\ search.op = "none"
  /\ \E from \in SearchStarts, to \in SearchGoals, walkableOverride \in PathSets :
       search' = SearchCall("FindPath", from, to, walkableOverride)
  /\ UNCHANGED << graphVars, gridVars, genVars, webVars, cli >>

SFindPathAvoid ==
  /\ search.op = "none"
  /\ \E from \in SearchStarts, to \in SearchGoals, avoid \in PathSets :
       search' = SearchCall("FindPathAvoid", from, to, avoid)
  /\ UNCHANGED << graphVars, gridVars, genVars, webVars, cli >>

\* The neighbors of current that the turn from st to nxt pushed, in the order
\* of Adjacent(), which is the order of the pushes.
Pushed(st, nxt, current) ==
  LET New(q) == /\ InBounds(grid, q)
                /\ ~st.inOpen[q.Y][q.X]
                /\ nxt.inOpen[q.Y][q.X]
  IN SelectSeq(AdjacentPts(current), New)

\* One turn of the loop: heap.Pop, the goal test, the four neighbors.
STurn ==
  /\ Searching
  /\ ~search.st.done
  /\ LET st == search.st
         nxt == astarTurn(st, SearchEnv)
         popped == IF Len(st.openSet) = 0 THEN NoNode ELSE heapPop(st.openSet).node
         pushed == IF Len(st.openSet) = 0 THEN << >> ELSE Pushed(st, nxt, popped.point)
         Rank(q) == CHOOSE k \in 1..Len(pushed) : pushed[k] = q
         IsPushed(q) == \E k \in 1..Len(pushed) : pushed[k] = q
     IN search' = [search EXCEPT
                     !.st = nxt,
                     !.popped = popped,
                     !.before = st.openSet,
                     !.pushes = @ + Len(pushed),
                     !.seq = [y \in 0..(grid.Height - 1) |->
                                [x \in 0..(grid.Width - 1) |->
                                   IF IsPushed(Point(x, y))
                                     THEN search.pushes + Rank(Point(x, y))
                                     ELSE search.seq[y][x]]]]
  /\ UNCHANGED << graphVars, gridVars, genVars, webVars, cli >>

\* The function has returned: the path or nil.
SReturn ==
  /\ Searching
  /\ search.st.done
  /\ search' = [op |-> "returned", path |-> search.st.path]
  /\ UNCHANGED << graphVars, gridVars, genVars, webVars, cli >>

NextSearch ==
  \/ SFindPath
  \/ SFindPathAvoid
  \/ STurn
  \/ SReturn

SpecSearch ==
  InitSearch /\ [][NextSearch]_vars

\* C19: in FindPath and FindPathAvoid the entry popped from the open set is,
\* among the entries that had the same fScore when it was popped, the one
\* that was pushed first.
C19_EqualKeysPopInPushOrder ==
  (Searching /\ search.popped # NoNode) =>
    \A i \in 1..Len(search.before) :
      LET e == search.before[i]
      IN e.fScore = search.popped.fScore =>
           search.seq[search.popped.point.Y][search.popped.point.X]
             <= search.seq[e.point.Y][e.point.X]

\* C20: during a run of FindPath or FindPathAvoid every entry of the open set
\* has fScore = gScore[point] + heuristic(point, to), also after a shorter
\* route to a point already in the open set was found.
C20_OpenSetKeyedByBestCost ==
  Searching =>
    \A i \in 1..Len(search.st.openSet) :
      LET e == search.st.openSet[i]
      IN e.fScore = search.st.gScore[e.point.Y][e.point.X] + heuristic(e.point, search.to)

\* C25: after any sequence of AddNode and AddEdge calls the weight of every
\* edge is the Manhattan distance between the positions its two endpoint
\* nodes have now, also after AddNode replaced a node by one placed elsewhere.
C25_EdgeWeightIsCurrentDistance ==
  \A i \in DOMAIN graph.Edges :
    LET e == graph.Edges[i]
    IN (e.From \in DOMAIN graph.Nodes /\ e.To \in DOMAIN graph.Nodes) =>
         e.Weight = manhattanDist(graph.Nodes[e.From].Position, graph.Nodes[e.To].Position)

\* The position placeProjects gave a tower, cabin or building: the centre of
\* the tower, the middle of the bounds of the other two.
PlacedAt(c) ==
  IF c.kind = "tower" THEN c.center
  ELSE Point(GoDiv(c.bounds.MinX + c.bounds.MaxX, 2), GoDiv(c.bounds.MinY + c.bounds.MaxY, 2))

\* The project components that were given an entrance direction.
HasEntrance(c) ==
  /\ c.kind \in { "tower", "cabin", "building" }
  /\ c.zone # NilZone

\* C21: the entrance of every project component faces from its position
\* toward the chunk centre (25, 25); when the horizontal and the vertical
\* offset are equally large the entrance is East or West.
C21_EntranceFacesCentreEastWestOnTie ==
  HasRun("placeProjects") =>
    \A i \in DOMAIN cg.components :
      LET c == cg.components[i]
          dx == GoDiv(ChunkSize, 2) - PlacedAt(c).X
          dy == GoDiv(ChunkSize, 2) - PlacedAt(c).Y
      IN HasEntrance(c) =>
           /\ (abs(dx) >= abs(dy) /\ dx # 0) =>
                c.entranceDir = (IF dx > 0 THEN East ELSE West)
           /\ abs(dy) > abs(dx) =>
                c.entranceDir = (IF dy > 0 THEN South ELSE North)

\* The cells joined to a cell of s by steps between 4-adjacent cells of glyph t.
RECURSIVE SameGlyphRegion(_, _, _)
SameGlyphRegion(g, s, t) ==
  LET more == { q \in UNION { { AdjacentPts(p)[i] : i \in 1..4 } : p \in s } :
                  InBounds(g, q) /\ Get(g, q) = t }
  IN IF more \subseteq s THEN s ELSE SameGlyphRegion(g, s \cup more, t)

\* C23: after FloodFill(start, newTile, walkable) with start inside the grid,
\* every cell of the 4-connected region that shared the glyph of start holds
\* newTile with the walkable argument, and every other cell is unchanged; also
\* when newTile is the glyph the region already had.
C23_FloodFillPaintsRegion ==
  (gop.op = "FloodFill" /\ InBounds(gop.before, gop.p)) =>
    LET region == SameGlyphRegion(gop.before, { gop.p }, Get(gop.before, gop.p))
    IN \A x \in 0..(grid.Width - 1), y \in 0..(grid.Height - 1) :
         IF Point(x, y) \in region
           THEN grid.Tiles[y][x] = gop.tile /\ grid.Walkable[y][x] = gop.walkable
           ELSE /\ grid.Tiles[y][x] = gop.before.Tiles[y][x]
                /\ grid.Walkable[y][x] = gop.before.Walkable[y][x]

\* The same for a newTile other than the glyph of start.
C23_FloodFillPaintsRegionOfOtherGlyph ==
  (gop.op = "FloodFill" /\ InBounds(gop.before, gop.p)
     /\ Get(gop.before, gop.p) # gop.tile) =>
    C23_FloodFillPaintsRegion

\* The positions findClosestAnchor chooses among for a node.
AnchorPositions(node) ==
  IF Len(node.Anchors) = 0 THEN { node.Position }
  ELSE { node.Anchors[k].Position : k \in DOMAIN node.Anchors }

\* C22: the path of every routed edge runs between a pair of anchors, one of
\* each end node, whose Manhattan distance is the least over all such pairs.
C22_RoutedBetweenClosestAnchors ==
  HasRun("routePaths") =>
    \A i \in DOMAIN cg.graph.Edges :
      LET edge == cg.graph.Edges[i]
          as == AnchorPositions(cg.graph.Nodes[edge.From])
          bs == AnchorPositions(cg.graph.Nodes[edge.To])
      IN edge.Path # NoPath =>
           /\ edge.Path[1] \in as
           /\ edge.Path[Len(edge.Path)] \in bs
           /\ \A a \in as, b \in bs :
                manhattanDist(edge.Path[1], edge.Path[Len(edge.Path)]) <= manhattanDist(a, b)

\* The step taken by the decoration stage.
DecorationStep ==
  pc = "addDecoration" /\ pc' = stageAfter("addDecoration")

\* C24: the decoration stage changes only cells that held Grass when it
\* started; every other cell keeps its glyph and its walkability.
C24_DecorationOnlyOnGrass ==
  [][DecorationStep =>
       \A x \in 0..(ChunkSize - 1), y \in 0..(ChunkSize - 1) :
         cg.grid.Tiles[y][x] # cg.palette.Grass =>
           /\ cg'.grid.Tiles[y][x] = cg.grid.Tiles[y][x]
           /\ cg'.grid.Walkable[y][x] = cg.grid.Walkable[y][x]]_vars

\* Decoration has run on a grid with a routed path and a structure, and left
\* bushes behind.
C24_Witness ==
  /\ HasRun("addDecoration")
  /\ cg.biome.BushDensity > 0
  /\ CellsWith(cg.grid, cg.palette.Path) # {}
  /\ CellsWith(cg.grid, cg.palette.Bush) # {}
  /\ CellsWith(cg.grid, cg.palette.Water) # {}

\* From the i-th edge on, at every turn of the loop of routePaths: no cell of
\* avoid is walkable, and FindPath with no override finds a path between the
\* two anchors exactly when FindPathAvoid does.
RECURSIVE RetryNeverHelps(_, _, _)
RetryNeverHelps(st, avoid, i) ==
  IF st.err # NoError \/ i > Len(st.cg.graph.Edges) THEN TRUE
  ELSE LET edge == st.cg.graph.Edges[i]
           fromNode == st.cg.graph.Nodes[edge.From]
           toNode == st.cg.graph.Nodes[edge.To]
           fromAnchor == findClosestAnchor(fromNode, toNode.Position)
           toAnchor == findClosestAnchor(toNode, fromNode.Position)
       IN /\ \A p \in avoid : ~IsWalkable(st.cg.grid, p)
          /\ (FindPath(st.cg.grid, fromAnchor, toAnchor, {}) = NoPath)
               <=> (FindPathAvoid(st.cg.grid, fromAnchor, toAnchor, avoid) = NoPath)
          /\ RetryNeverHelps(routeEdge(st.cg, avoid, i), avoid, i + 1)

\* The step taken by the routing stage.
RoutingStep ==
  pc = "routePaths" /\ HasRun("routePaths")'

\* C26: during routePaths every cell of the avoid set is non-walkable at every
\* pathfinder call, and for every edge FindPath without avoidance returns a
\* path exactly when FindPathAvoid with the avoid set does, so the retry for
\* a required edge never succeeds where the first attempt failed.
C26_RetryNeverHelps ==
  [][RoutingStep => RetryNeverHelps([cg |-> cg, err |-> NoError], routeAvoid(cg), 1)]_vars

\* routePaths returned the routing error: both attempts on a required edge
\* failed, with a non-empty avoid set.
C26_Witness ==
  /\ HasRun("routePaths")
  /\ outcome.err.msg = "could not route required path"
  /\ \E i \in DOMAIN cg.components : componentAvoid(cg.grid, cg.components[i]) # {}

\* The sides that are both a shoreline and a connection of the configuration.
ShoreConnections(config) ==
  { config.Shorelines[i] : i \in DOMAIN config.Shorelines }
    \cap { config.Connections[i] : i \in DOMAIN config.Connections }

\* C27: for a configuration that lists some side both in shorelines and in
\* connections Generate returns no ChunkDefinition: routing the required edge
\* from the hub to the port of such a side fails, or validation reports the first zone unreachable from
\* the port of such a side.  The port of such a side is on deep water and
\* every cell next to it is water, none of them walkable.
C27_ShoreConnectionNeverGenerates ==
  /\ (pc = "done" /\ ShoreConnections(cg.config) # {}) =>
       /\ outcome.def = << >>
       /\ \/ /\ outcome.err.msg = "could not route required path"
             /\ outcome.err.a = "hub"
             /\ \E d \in ShoreConnections(cg.config) : outcome.err.b = PortID(d)
          \/ /\ outcome.err.msg = "zone not reachable from port"
             /\ outcome.err.a = cg.zones[1].Name
             /\ \E d \in ShoreConnections(cg.config) : outcome.err.b = PortID(d)
  /\ HasRun("renderComponents") =>
       \A d \in ShoreConnections(cg.config) :
         LET pos == createEdgePort(d).Position
         IN /\ Get(cg.grid, pos) = cg.palette.DeepWater
            /\ ~IsWalkable(cg.grid, pos)
            /\ \A k \in 1..4 :
                 LET q == AdjacentPts(pos)[k]
                 IN InBounds(cg.grid, q) =>
                      /\ Get(cg.grid, q) \in { cg.palette.Water, cg.palette.DeepWater }
                      /\ ~IsWalkable(cg.grid, q)

\* Generate has ended for a configuration whose only connection is on a
\* shoreline side: there is no hub, and validation has failed.
C27_Witness ==
  /\ pc = "done"
  /\ ShoreConnections(cg.config) # {}
  /\ outcome.err.msg = "zone not reachable from port"

\* The pairs of glyph and walkable flag that occur in the grid.
GlyphFlags(g) ==
  { << g.Tiles[y][x], g.Walkable[y][x] >> : x \in 0..(g.Width - 1), y \in 0..(g.Height - 1) }

\* C28: in the grid at the end of every successful Generate no two cells carry
\* the same glyph with different walkable flags.
C28_WalkableFollowsGlyph ==
  (pc = "done" /\ outcome.def # << >>) =>
    \A a \in GlyphFlags(cg.grid), b \in GlyphFlags(cg.grid) :
      a[1] = b[1] => a[2] = b[2]

\* A successful Generate whose grid holds paths, sand, trees and bushes, the
\* bushes of a garden and those of the decoration among them.
C28_Witness ==
  /\ pc = "done"
  /\ outcome.def # << >>
  /\ \E i \in DOMAIN cg.terrainFeatures : cg.terrainFeatures[i].kind = "garden"
  /\ { << cg.palette.Path, TRUE >>, << cg.palette.Sand, TRUE >>,
       << cg.palette.Bush, FALSE >>, << cg.palette.Tree, FALSE >> } \subseteq GlyphFlags(cg.grid)

\* The generator as Generate holds it when routePaths has returned.
routedGenerator(config) ==
  routePaths(renderComponents(placeSignposts(placeHub(placeProjects(placeTerrain(
    buildGraph(initGrid(NewChunkGenerator(config))))))))).cg

\* The cells of the routed edge paths that are walkable in grid g.
WalkablePathCells(edges, g) ==
  { p \in UNION { { edges[i].Path[k] : k \in DOMAIN edges[i].Path } :
                    i \in { j \in DOMAIN edges : edges[j].Path # NoPath } } :
      IsWalkable(g, p) }

\* C29: after every successful Generate, every cell of a routed edge path that
\* was walkable when routePaths returned is walkable in the emitted grid.
C29_PathCellsStayWalkable ==
  (pc = "done" /\ outcome.def # << >>) =>
    LET routed == routedGenerator(cg.config)
    IN WalkablePathCells(routed.graph.Edges, routed.grid)
         \subseteq WalkablePathCells(cg.graph.Edges, cg.grid)

\* The indices of the components placeProjects has appended: the structures,
\* each with its zone, whatever the ProjectID.  The components of placeTerrain
\* and the hub plaza have no zone, and placeSignposts appends signposts only.
ProjectComponents(comps) ==
  { i \in DOMAIN comps : /\ comps[i].kind \in { "tower", "shrine", "courtyard", "cabin", "building" }
                          /\ comps[i].zone # NilZone }

\* C30: with 2 to 4 projects of size 1 to 3, the bounds of the components
\* placeProjects has placed do not overlap one another.
C30_ProjectBoundsDisjoint ==
  (/\ HasRun("placeProjects")
   /\ Len(cg.config.Projects) \in 2..4
   /\ \A k \in DOMAIN cg.config.Projects : cg.config.Projects[k].Size \in 1..3) =>
    \A i \in ProjectComponents(cg.components), j \in ProjectComponents(cg.components) :
      i # j => ~Overlaps(GetBounds(cg.components[i]), GetBounds(cg.components[j]))

====
